---- MODULE Spec2Model ----
(***************************************************************************)
(* A model of the scale canonicalization and validation engine of          *)
(* scale-library: Tone construction and rendering, build_scl, the scale    *)
(* validator, reduce, the fingerprint used for deduplication, and the      *)
(* mailing-list and DaMuSc generation passes.                              *)
(*                                                                         *)
(* Numbers.  A cent value is a decimal fixed-point number with seven       *)
(* fractional digits, [i |-> integer part, f |-> 0 .. 10^7-1], standing    *)
(* for i + f/10^7 (so -0.5 is [i |-> -1, f |-> 5000000]).  Seven digits    *)
(* is one more than the serializer keeps, so both roundings of the code    *)
(* (6 digits when rendering, 5 digits in the fingerprint) lose digits.     *)
(* A Python int of a ratio is [hi, lo] = hi * 10^5 + lo, because the scl   *)
(* limit 2^31 - 1 is the largest integer TLC computes with.                *)
(*                                                                         *)
(* Text.  A string is a sequence of tokens: every digit, blank and         *)
(* punctuation mark is a token of its own, a run of letters is one token.  *)
(* A text is a sequence of lines.                                          *)
(***************************************************************************)
EXTENDS Integers, Sequences, FiniteSets, TLC

(***************************************************************************)
(* Bounds of the model.                                                    *)
(***************************************************************************)
\* the longest list of tones handed to build_scl, the most tones of a scale
\* text handed to the validator, and the longest scale written twice
MaxTones == 2

\* reduce is applied to the fractions n/d with 1 <= n, d <= MaxNum
MaxNum == 12

\* the most results handed to write_out_results
MaxResults == 3

\* the most rows of measured_scales.csv
MaxRows == 3

(***************************************************************************)
(* State.  The model holds six independent parts, each run by a            *)
(* specification of its own; a specification leaves the other parts idle.  *)
(***************************************************************************)
VARIABLES
  \* building and checking one Xenharmonikon scale: Tone(...) calls,
  \* build_scl, parse_scl_data, validate_scale
  targs,      \* the arguments of the Tone(...) calls, in order
  tkw,        \* the comments and page arguments of build_scl
  tobjs,      \* the Tones constructed so far
  scl,        \* what build_scl returned
  parsed,     \* what parse_scl_data returned for scl.scl_text
  verdict,    \* what validate_scale returned for parsed
  pcT,        \* the step the run is at
  texc,       \* the exception that ended the run, "" while there is none
  \* one scale written twice, with ratios and with rounded cents
  fpIn,       \* the ratios of the scale
  fpA,        \* the fingerprint of the scale written with ratios
  fpB,        \* the fingerprint of the scale written with cents
  pcF,
  \* validate_scale on the scale read from a text
  vtext,      \* the text
  vscale,     \* what parse_scl_data returned or raised for it
  vres,       \* what validate_scale returned or raised
  pcV,
  \* reduce
  redIn,      \* the argument
  red1,       \* reduce(redIn)
  red2,       \* reduce(reduce(redIn))
  pcR,
  \* write_out_results (mailing_lists.py)
  results,    \* the argument
  ordered,    \* sorted(results, key=sort_key)
  mIdx,       \* the number of results the loop has gone through
  filenames,  \* the local set filenames
  all_tones,  \* the local set all_tones
  mFiles,     \* the files of the directory mailing-lists
  mRet,       \* what write_out_results returned or raised
  pcM,
  \* main of damusc.py
  rows,       \* the rows of measured_scales.csv, in MeasuredID order
  dIdx,       \* the number of rows the first loop has gone through
  dFilenames, \* the local set filenames of write_measured_scales
  built,      \* what measured_df_to_scl returned, row by row
  tones_to_scl, \* the dict tones_to_scl, in insertion order
  dGroup,     \* the number of its items the second loop has gone through
  dFiles,     \* the files of the directory database-of-musical-scales
  dRet,       \* what main returned or raised
  pcD,
  \* check_scl_dir (utils.py)
  cTree,      \* the files of the tree under dir_path
  cSeen,      \* the files the loop has gone through
  counter,    \* the local Counter
  cRet,       \* what check_scl_dir returned or raised
  pcC,
  \* main of run_all.py
  rOut,       \* the files each source writes into its directory
  rTree,      \* the files of the tree under SCALES_DIR
  rIdx,       \* the number of sources whose main has returned a pair
  rCounts,    \* the counts unpacked from what the sources returned
  rRefs,      \* the references unpacked from what the sources returned
  rTotal,     \* total_scl_count
  rRet,       \* what main returned or raised
  rLine,      \* the line of run_all.py at which main ended, 0 before
  rReadme,    \* write_readme has written the README in this run
  rIndex,     \* the scale index has been written in this run
  pcRun,
  \* parse_info on the text of a written file
  iIn,        \* the source and what it is given
  iText,      \* the text the source wrote
  iMeta,      \* the info dictionary the source serialized
  iRet,       \* what parse_info returned or raised
  pcI,
  \* extract_scales on one message
  email_lines, \* the lines of the cleaned message text
  scl_starts,  \* the indices of the possible first lines of scl files
  eIdx,        \* the number of starts tried
  eResults,    \* the results appended, each with the start it comes from
  eRet,        \* what extract_scales returned or raised
  pcE,
  \* check_count_line on a text
  kText,       \* scl_text
  kRet,        \* what check_count_line returned or raised
  pcK,
  \* cps
  cpsIn,       \* numbers, count and root
  cpsRet,      \* what cps returned or raised
  pcP,
  \* the registration of the tritriadic scales at module level
  triLists,          \* TRITRIADIC, TRITRIADIC_2, TRITRIADIC_MT, TRITRIADIC_DM
  triFamily,         \* the list the running loop goes over, 1 to 4
  triIdx,            \* the number of triples of that list passed
  TRITRIADIC_TONES,
  registered,        \* the builders in globals(): name and tones
  triExc,            \* the exception that ended the registration, "" for none
  pcY

toneVars == <<targs, tkw, tobjs, scl, parsed, verdict, pcT, texc>>

fpVars == <<fpIn, fpA, fpB, pcF>>

valVars == <<vtext, vscale, vres, pcV>>

redVars == <<redIn, red1, red2, pcR>>

mailVars == <<results, ordered, mIdx, filenames, all_tones, mFiles, mRet, pcM>>

damVars == <<rows, dIdx, dFilenames, built, tones_to_scl, dGroup, dFiles, dRet, pcD>>

checkVars == <<cTree, cSeen, counter, cRet, pcC>>

runVars == <<rOut, rTree, rIdx, rCounts, rRefs, rTotal, rRet, rLine, rReadme, rIndex,
            pcRun>>

infoVars == <<iIn, iText, iMeta, iRet, pcI>>

extVars == <<email_lines, scl_starts, eIdx, eResults, eRet, pcE>>

cntVars == <<kText, kRet, pcK>>

cpsVars == <<cpsIn, cpsRet, pcP>>

triVars == <<triLists, triFamily, triIdx, TRITRIADIC_TONES, registered, triExc, pcY>>

moreVars == <<extVars, cntVars, cpsVars, triVars>>

treeVars == <<checkVars, runVars, infoVars, moreVars>>

vars == <<toneVars, fpVars, valVars, redVars, mailVars, damVars, treeVars>>

(***************************************************************************)
(* Decimal fixed-point numbers.                                            *)
(***************************************************************************)
DecOne == 10^7

D(i, f) == [i |-> i, f |-> f]

DecLt(a, b) == a.i < b.i \/ (a.i = b.i /\ a.f < b.f)

DecLeq(a, b) == a = b \/ DecLt(a, b)

DecSub(a, b) ==
  IF a.f >= b.f THEN D(a.i - b.i, a.f - b.f)
  ELSE D(a.i - b.i - 1, a.f + DecOne - b.f)

DecAdd(a, b) ==
  IF a.f + b.f >= DecOne THEN D(a.i + b.i + 1, a.f + b.f - DecOne)
  ELSE D(a.i + b.i, a.f + b.f)

DecNeg(a) == DecSub(D(0, 0), a)

\* abs(a - b)
DecAbsDiff(a, b) == IF DecLt(a, b) THEN DecSub(b, a) ELSE DecSub(a, b)

\* round(x, ndigits) of a Decimal, 0 <= ndigits <= 7: the nearest multiple
\* of 10^-ndigits, a tie going to the even multiple.
Quantize(v, ndigits) ==
  LET u  == 10^(7 - ndigits)
      q  == v.f \div u
      r  == v.f % u
      up == 2 * r > u \/ (2 * r = u /\ q % 2 = 1)
      f2 == (q + (IF up THEN 1 ELSE 0)) * u
  IN  IF f2 = DecOne THEN D(v.i + 1, 0) ELSE D(v.i, f2)

(***************************************************************************)
(* Floats.  A float is kept as its first seven fractional digits, the      *)
(* rest cut off: the double nearest to 111.731285 is                       *)
(* 111.73128499999999974..., kept as 111.7312849.  FloatBelow holds the    *)
(* decimals this model reads or rounds to whose nearest double lies below  *)
(* them; the nearest double of every other one is the decimal or lies      *)
(* above it.                                                               *)
(***************************************************************************)
FloatBelow ==
  {
    <<0, 10>>, <<111, 7312800>>, <<111, 7312850>>, <<119, 4428080>>,
    <<119, 4428100>>, <<128, 2982400>>, <<128, 2982500>>, <<150, 6370590>>,
    <<150, 6370600>>, <<182, 4037100>>, <<203, 9100000>>, <<203, 9100020>>,
    <<231, 1740940>>, <<247, 7410530>>, <<266, 8709060>>, <<266, 8709100>>,
    <<315, 6412870>>, <<347, 4079400>>, <<347, 4079410>>, <<359, 4723380>>,
    <<359, 4723400>>, <<386, 3137139>>, <<435, 840950>>, <<435, 841000>>,
    <<617, 4878070>>, <<617, 4878100>>, <<648, 6820580>>, <<648, 6820600>>,
    <<764, 9159000>>, <<764, 9159050>>, <<782, 4920360>>, <<782, 4920400>>,
    <<813, 6862860>>, <<813, 6862900>>, <<840, 5276600>>, <<840, 5276620>>,
    <<884, 3587100>>, <<884, 3587130>>, <<1017, 5962880>>,
    <<1017, 5962900>>, <<1049, 3629400>>, <<1071, 7017600>>,
    <<1088, 2687150>>, <<1199, 9999990>>, <<1202, 1000000>>,
    <<1338, 5726610>>, <<1431, 1740900>>, <<1431, 1740940>>,
    <<1515, 6412870>>, <<1586, 3137100>>, <<1586, 3137140>>,
    <<1698, 449990>>, <<1751, 3179400>>, <<1751, 3179420>>,
    <<1782, 5121900>>, <<1901, 9550000>>, <<2040, 5276600>>,
    <<2040, 5276620>>, <<2084, 3587100>>, <<2249, 3629400>>,
    <<2249, 3629410>>, <<2288, 2687100>>, <<2538, 5726600>>,
    <<2603, 9100000>>, <<2786, 3137100>>, <<2786, 3137140>>,
    <<2951, 3179400>>, <<3101, 9550000>>, <<3101, 9550010>>,
    <<3240, 5276620>>, <<3488, 2687100>>, <<3803, 9100000>>,
    <<3986, 3137100>>, <<3986, 3137140>>, <<4151, 3179400>>,
    <<4151, 3179420>>, <<4301, 9550000>>, <<4440, 5276600>>,
    <<4568, 8259100>>, <<6772, 6274280>>, <<6772, 6274300>>,
    <<7955, 2279400>>, <<7972, 6274280>>, <<7972, 6274300>>,
    <<11341, 4533340>>
  }

\* the double nearest to the decimal v
Double(v) == IF <<v.i, v.f>> \in FloatBelow THEN DecSub(v, D(0, 1)) ELSE v

\* the shortest decimal whose nearest double is v
Shortest(v) ==
  IF <<DecAdd(v, D(0, 1)).i, DecAdd(v, D(0, 1)).f>> \in FloatBelow
  THEN DecAdd(v, D(0, 1)) ELSE v

\* round(x, ndigits) of a float, 0 <= ndigits <= 6: the double nearest to
\* the nearest multiple of 10^-ndigits.  The digits cut off from v decide
\* a tie: only a multiple of 2^-7 is a double with seven fractional digits
\* and none after them, and it goes to the even multiple; any other v
\* stands for a double above the tie.
Round(v, ndigits) ==
  LET u  == 10^(7 - ndigits)
      q  == v.f \div u
      r  == v.f % u
      up == 2 * r > u \/ (2 * r = u /\ (v.f % 78125 # 0 \/ q % 2 = 1))
      f2 == (q + (IF up THEN 1 ELSE 0)) * u
  IN  Double(IF f2 = DecOne THEN D(v.i + 1, 0) ELSE D(v.i, f2))

(***************************************************************************)
(* Python ints that may exceed 2^31 - 1.                                   *)
(***************************************************************************)
BigBase == 10^5

Big(hi, lo) == [hi |-> hi, lo |-> lo]

ToBig(n) == Big(n \div BigBase, n % BigBase)

BigLeq(a, b) == a.hi < b.hi \/ (a.hi = b.hi /\ a.lo <= b.lo)

BigIsZero(a) == a.hi = 0 /\ a.lo = 0

(***************************************************************************)
(* Strings.                                                                *)
(***************************************************************************)
DigitToks == <<"0", "1", "2", "3", "4", "5", "6", "7", "8", "9">>

DigitSet == {DigitToks[k] : k \in 1..10}

DigitTok(d) == DigitToks[d + 1]

DigitVal(c) == CHOOSE d \in 0..9 : DigitToks[d + 1] = c

Whitespace == {" ", "\t"}

\* str(n) of an int
RECURSIVE IntStr(_)
IntStr(n) ==
  IF n < 0 THEN <<"-">> \o IntStr(-n)
  ELSE IF n < 10 THEN <<DigitTok(n)>>
  ELSE IntStr(n \div 10) \o <<DigitTok(n % 10)>>

\* n >= 0 written with exactly w digits
RECURSIVE PadInt(_, _)
PadInt(n, w) ==
  IF w = 0 THEN << >>
  ELSE PadInt(n \div 10, w - 1) \o <<DigitTok(n % 10)>>

BigStr(b) ==
  IF b.hi = 0 THEN IntStr(b.lo) ELSE IntStr(b.hi) \o PadInt(b.lo, 5)

\* int(s) of a string of digits
RECURSIVE ParseNat(_)
ParseNat(s) ==
  IF s = << >> THEN 0
  ELSE 10 * ParseNat(SubSeq(s, 1, Len(s) - 1)) + DigitVal(s[Len(s)])

ParseBig(s) ==
  IF Len(s) <= 5 THEN Big(0, ParseNat(s))
  ELSE Big(ParseNat(SubSeq(s, 1, Len(s) - 5)),
           ParseNat(SubSeq(s, Len(s) - 4, Len(s))))

AllDigits(s) == \A k \in 1..Len(s) : s[k] \in DigitSet

\* str.isdigit()
IsDigitStr(s) == s # << >> /\ AllDigits(s)

RECURSIVE LStrip(_)
LStrip(s) ==
  IF s # << >> /\ s[1] \in Whitespace THEN LStrip(Tail(s)) ELSE s

RECURSIVE RStrip(_)
RStrip(s) ==
  IF s # << >> /\ s[Len(s)] \in Whitespace
  THEN RStrip(SubSeq(s, 1, Len(s) - 1)) ELSE s

\* str.strip()
Strip(s) == RStrip(LStrip(s))

\* the index of the first occurrence of sub in s, 0 when there is none
Find(s, sub) ==
  LET hits == {k \in 1..(Len(s) - Len(sub) + 1) :
                 SubSeq(s, k, k + Len(sub) - 1) = sub}
  IN  IF hits = {} THEN 0 ELSE CHOOSE k \in hits : \A j \in hits : k <= j

\* sub in s
Contains(s, sub) == Find(s, sub) # 0

\* sub in text, for a sub without line break
TextContains(text, sub) == \E k \in 1..Len(text) : Contains(text[k], sub)

\* s.split(sep)[0]
BeforeFirst(s, sep) ==
  IF Find(s, sep) = 0 THEN s ELSE SubSeq(s, 1, Find(s, sep) - 1)

\* s.removesuffix(suffix)
RemoveSuffix(s, suffix) ==
  IF Len(s) >= Len(suffix)
     /\ SubSeq(s, Len(s) - Len(suffix) + 1, Len(s)) = suffix
  THEN SubSeq(s, 1, Len(s) - Len(suffix)) ELSE s

RECURSIVE StripZeros(_)
StripZeros(s) ==
  IF Len(s) > 1 /\ s[Len(s)] = "0"
  THEN StripZeros(SubSeq(s, 1, Len(s) - 1)) ELSE s

RECURSIVE Spaces(_)
Spaces(n) == IF n <= 0 THEN << >> ELSE <<" ">> \o Spaces(n - 1)

Max(a, b) == IF a >= b THEN a ELSE b

\* the digits of a decimal v >= 0, in exponent form when 0 < v < 10^-4
DecimalDigits(v) ==
  IF v.i = 0 /\ v.f = 0 THEN <<"0", ".", "0">>
  ELSE IF v.i = 0 /\ v.f < 1000
  THEN LET m == StripZeros(IntStr(v.f))
           e == IF v.f >= 100 THEN "5" ELSE IF v.f >= 10 THEN "6" ELSE "7"
       IN  (IF Len(m) = 1 THEN m ELSE <<m[1], ".">> \o Tail(m))
             \o <<"e", "-", "0", e>>
  ELSE IntStr(v.i) \o <<".">> \o StripZeros(PadInt(v.f, 7))

\* repr() of a float v with |v| < 10^16: the shortest decimal that reads
\* back as v, in exponent form when 0 < |v| < 10^-4.
FloatStr(v) ==
  IF v.i < 0 THEN <<"-">> \o DecimalDigits(Shortest(DecNeg(v)))
  ELSE DecimalDigits(Shortest(v))

\* str() of a Decimal written with `places` fractional digits,
\* 0 <= places <= 7
RECURSIVE DecimalStr(_, _)
DecimalStr(v, places) ==
  IF v.i < 0 THEN <<"-">> \o DecimalStr(DecNeg(v), places)
  ELSE IF places = 0 THEN IntStr(v.i)
  ELSE IntStr(v.i) \o <<".">> \o SubSeq(PadInt(v.f, 7), 1, places)

(***************************************************************************)
(* 1200 * log2(n / d), cut to seven fractional digits.  LogTab[n][d] is    *)
(* the value for 1 <= n, d <= 16; BigLog holds the other ratios the model  *)
(* uses.                                                                   *)
(***************************************************************************)
LogTab ==
  <<
   << <<0, 0>>, <<-1200, 0>>, <<-1902, 449991>>, <<-2400, 0>>, <<-2787, 6862861>>, <<-3102, 449991>>, <<-3369, 1740935>>, <<-3600, 0>>, <<-3804, 899982>>, <<-3987, 6862861>>, <<-4152, 6820576>>, <<-4302, 449991>>, <<-4441, 4723382>>, <<-4569, 1740935>>, <<-4689, 7312852>>, <<-4800, 0>> >>,
   << <<1200, 0>>, <<0, 0>>, <<-702, 449991>>, <<-1200, 0>>, <<-1587, 6862861>>, <<-1902, 449991>>, <<-2169, 1740935>>, <<-2400, 0>>, <<-2604, 899982>>, <<-2787, 6862861>>, <<-2952, 6820576>>, <<-3102, 449991>>, <<-3241, 4723382>>, <<-3369, 1740935>>, <<-3489, 7312852>>, <<-3600, 0>> >>,
   << <<1901, 9550008>>, <<701, 9550008>>, <<0, 0>>, <<-499, 9550008>>, <<-885, 6412870>>, <<-1200, 0>>, <<-1467, 1290943>>, <<-1699, 9550008>>, <<-1902, 449991>>, <<-2085, 6412870>>, <<-2250, 6370585>>, <<-2400, 0>>, <<-2539, 4273390>>, <<-2667, 1290943>>, <<-2787, 6862861>>, <<-2899, 9550008>> >>,
   << <<2400, 0>>, <<1200, 0>>, <<498, 449991>>, <<0, 0>>, <<-387, 6862861>>, <<-702, 449991>>, <<-969, 1740935>>, <<-1200, 0>>, <<-1404, 899982>>, <<-1587, 6862861>>, <<-1752, 6820576>>, <<-1902, 449991>>, <<-2041, 4723382>>, <<-2169, 1740935>>, <<-2289, 7312852>>, <<-2400, 0>> >>,
   << <<2786, 3137138>>, <<1586, 3137138>>, <<884, 3587129>>, <<386, 3137138>>, <<0, 0>>, <<-316, 3587129>>, <<-583, 4878073>>, <<-814, 3137138>>, <<-1018, 4037121>>, <<-1200, 0>>, <<-1366, 9957715>>, <<-1516, 3587129>>, <<-1655, 7860520>>, <<-1783, 4878073>>, <<-1902, 449991>>, <<-2014, 3137138>> >>,
   << <<3101, 9550008>>, <<1901, 9550008>>, <<1200, 0>>, <<701, 9550008>>, <<315, 6412870>>, <<0, 0>>, <<-267, 1290943>>, <<-499, 9550008>>, <<-702, 449991>>, <<-885, 6412870>>, <<-1050, 6370585>>, <<-1200, 0>>, <<-1339, 4273390>>, <<-1467, 1290943>>, <<-1587, 6862861>>, <<-1699, 9550008>> >>,
   << <<3368, 8259064>>, <<2168, 8259064>>, <<1466, 8709056>>, <<968, 8259064>>, <<582, 5121926>>, <<266, 8709056>>, <<0, 0>>, <<-232, 8259064>>, <<-436, 9159047>>, <<-618, 5121926>>, <<-783, 5079641>>, <<-934, 8709056>>, <<-1072, 2982446>>, <<-1200, 0>>, <<-1320, 5571917>>, <<-1432, 8259064>> >>,
   << <<3600, 0>>, <<2400, 0>>, <<1698, 449991>>, <<1200, 0>>, <<813, 6862861>>, <<498, 449991>>, <<231, 1740935>>, <<0, 0>>, <<-204, 899982>>, <<-387, 6862861>>, <<-552, 6820576>>, <<-702, 449991>>, <<-841, 4723382>>, <<-969, 1740935>>, <<-1089, 7312852>>, <<-1200, 0>> >>,
   << <<3803, 9100017>>, <<2603, 9100017>>, <<1901, 9550008>>, <<1403, 9100017>>, <<1017, 5962878>>, <<701, 9550008>>, <<435, 840952>>, <<203, 9100017>>, <<0, 0>>, <<-183, 5962878>>, <<-348, 5920593>>, <<-499, 9550008>>, <<-637, 3823399>>, <<-765, 840952>>, <<-885, 6412870>>, <<-997, 9100017>> >>,
   << <<3986, 3137138>>, <<2786, 3137138>>, <<2084, 3587129>>, <<1586, 3137138>>, <<1200, 0>>, <<884, 3587129>>, <<617, 4878073>>, <<386, 3137138>>, <<182, 4037121>>, <<0, 0>>, <<-166, 9957715>>, <<-316, 3587129>>, <<-455, 7860520>>, <<-583, 4878073>>, <<-702, 449991>>, <<-814, 3137138>> >>,
   << <<4151, 3179423>>, <<2951, 3179423>>, <<2249, 3629414>>, <<1751, 3179423>>, <<1365, 42284>>, <<1049, 3629414>>, <<782, 4920358>>, <<551, 3179423>>, <<347, 4079406>>, <<165, 42284>>, <<0, 0>>, <<-151, 3629414>>, <<-290, 7902805>>, <<-418, 4920358>>, <<-537, 492276>>, <<-649, 3179423>> >>,
   << <<4301, 9550008>>, <<3101, 9550008>>, <<2400, 0>>, <<1901, 9550008>>, <<1515, 6412870>>, <<1200, 0>>, <<933, 1290943>>, <<701, 9550008>>, <<498, 449991>>, <<315, 6412870>>, <<150, 6370585>>, <<0, 0>>, <<-139, 4273390>>, <<-267, 1290943>>, <<-387, 6862861>>, <<-499, 9550008>> >>,
   << <<4440, 5276617>>, <<3240, 5276617>>, <<2538, 5726609>>, <<2040, 5276617>>, <<1654, 2139479>>, <<1338, 5726609>>, <<1071, 7017553>>, <<840, 5276617>>, <<636, 6176600>>, <<454, 2139479>>, <<289, 2097194>>, <<138, 5726609>>, <<0, 0>>, <<-129, 7017553>>, <<-248, 2589470>>, <<-360, 5276617>> >>,
   << <<4568, 8259064>>, <<3368, 8259064>>, <<2666, 8709056>>, <<2168, 8259064>>, <<1782, 5121926>>, <<1466, 8709056>>, <<1200, 0>>, <<968, 8259064>>, <<764, 9159047>>, <<582, 5121926>>, <<417, 5079641>>, <<266, 8709056>>, <<128, 2982446>>, <<0, 0>>, <<-120, 5571917>>, <<-232, 8259064>> >>,
   << <<4688, 2687147>>, <<3488, 2687147>>, <<2786, 3137138>>, <<2288, 2687147>>, <<1901, 9550008>>, <<1586, 3137138>>, <<1319, 4428082>>, <<1088, 2687147>>, <<884, 3587129>>, <<701, 9550008>>, <<536, 9507723>>, <<386, 3137138>>, <<247, 7410529>>, <<119, 4428082>>, <<0, 0>>, <<-112, 2687147>> >>,
   << <<4800, 0>>, <<3600, 0>>, <<2898, 449991>>, <<2400, 0>>, <<2013, 6862861>>, <<1698, 449991>>, <<1431, 1740935>>, <<1200, 0>>, <<996, 899982>>, <<813, 6862861>>, <<648, 6820576>>, <<498, 449991>>, <<359, 4723382>>, <<231, 1740935>>, <<111, 7312852>>, <<0, 0>> >>
  >>

BigLog ==
     (<<Big(0, 50), Big(0, 1)>> :> D(6772, 6274277))
  @@ (<<Big(0, 99), Big(0, 1)>> :> D(7955, 2279440))
  @@ (<<Big(0, 100), Big(0, 1)>> :> D(7972, 6274277))
  @@ (<<Big(0, 700), Big(0, 1)>> :> D(11341, 4533341))
  @@ (<<Big(21474, 83647), Big(10737, 41824)>> :> D(1199, 9999991))
  @@ (<<Big(21474, 83648), Big(10737, 41824)>> :> D(1200, 0))
  @@ (<<Big(21474, 83648), Big(21474, 83647)>> :> D(0, 8))
  @@ (<<Big(32212, 25472), Big(21474, 83648)>> :> D(701, 9550008))

LogEntry(e) == D(e[1], e[2])

\* 1200 * log2(x / y) for ints x, y > 0
CentsOfRatio(n, d) ==
  IF n.hi = 0 /\ d.hi = 0 /\ n.lo \in 1..16 /\ d.lo \in 1..16
  THEN LogEntry(LogTab[n.lo][d.lo])
  ELSE BigLog[<<n, d>>]

(***************************************************************************)
(* Tone (xenharmonikon.py).                                                *)
(***************************************************************************)
None == <<"None">>

\* None where a list of strings is expected
NoLines == <<None>>

NoneNum == [i |-> 0, f |-> -1]

NoneBig == Big(-1, -1)

\* the outcome of a call: exc is "" for a normal return
Return(v) == [exc |-> "", val |-> v]

Raise(e) == [exc |-> e, val |-> None]

rounding == 6

nmax == Big(21474, 83647)

is_ratio(t) == t.ratio_n # NoneBig

\* str(round(self.cents, rounding))
rounded_cents_str(t) ==
  IF t.ctype = "float" THEN FloatStr(Round(t.cents, rounding))
  ELSE IF t.ctype = "Decimal" THEN DecimalStr(Quantize(t.cents, rounding), rounding)
  ELSE IntStr(t.cents.i)

\* _tone_string with < for <=
tone_string_below(t) ==
  IF is_ratio(t)
  THEN IF ~BigLeq(nmax, t.ratio_n) /\ ~BigLeq(nmax, t.ratio_d)
       THEN BigStr(t.ratio_n) \o <<"/">> \o BigStr(t.ratio_d)
       ELSE rounded_cents_str(t)
  ELSE IF t.ctype = "float" THEN rounded_cents_str(t)
  ELSE IF t.ctype = "Decimal"
  THEN IF -t.places >= -rounding THEN DecimalStr(t.cents, t.places)
       ELSE rounded_cents_str(t)
  ELSE None

tone_string(t) ==
  IF is_ratio(t)
  THEN IF BigLeq(t.ratio_n, nmax) /\ BigLeq(t.ratio_d, nmax)
       THEN BigStr(t.ratio_n) \o <<"/">> \o BigStr(t.ratio_d)
       ELSE rounded_cents_str(t)
  ELSE IF t.ctype = "float" THEN rounded_cents_str(t)
  ELSE IF t.ctype = "Decimal"
  THEN IF -t.places >= -rounding THEN DecimalStr(t.cents, t.places)
       ELSE rounded_cents_str(t)
  ELSE None

\* the assertion that ends Tone.__init__; its message formats the tone
CheckPeriod(t, period) ==
  IF DecLt(D(0, 0), t.cents) /\ DecLeq(t.cents, period) THEN Return(t)
  ELSE IF tone_string(t) = None THEN Raise("TypeError")
  ELSE Raise("AssertionError")

\* Tone(x, y, comment, period=..., cents=...).  The arguments a: a.form is
\* "cents" when y is None, and then x is the number a.cx of type a.ctype
\* (a Decimal written with a.places fractional digits); otherwise x and y
\* are the ints a.rx and a.ry >= 0.
ToneInit(a) ==
  IF a.form = "cents"
  THEN CheckPeriod([ratio_n |-> NoneBig, ratio_d |-> NoneBig,
                    cents |-> a.cx, ctype |-> a.ctype, places |-> a.places,
                    comment |-> a.comment], a.period)
  ELSE IF BigIsZero(a.ry) THEN Raise("ZeroDivisionError")
  ELSE IF BigIsZero(a.rx) THEN Raise("ValueError")
  ELSE LET t == [ratio_n |-> a.rx, ratio_d |-> a.ry,
                 cents |-> CentsOfRatio(a.rx, a.ry), ctype |-> "float",
                 places |-> 0, comment |-> a.comment]
       IN  IF a.cents # NoneNum /\ DecLt(D(0, 5000000), DecAbsDiff(a.cents, t.cents))
           THEN Raise("AssertionError")
           ELSE CheckPeriod(t, a.period)

\* Tone.__lt__
ToneLt(s, t) == DecLt(s.cents, t.cents)

\* Tone.scl_line(pad)
scl_line(t, pad) ==
  LET r == tone_string(t)
  IN  IF t.comment # None
      THEN r \o Spaces(Max(pad - Len(r), 1)) \o <<"!", " ">> \o t.comment
      ELSE r

\* sorted(tones): stable, by Tone.__lt__
RECURSIVE InsertTone(_, _)
InsertTone(s, t) ==
  IF s = << >> THEN <<t>>
  ELSE IF ToneLt(t, s[Len(s)]) THEN InsertTone(SubSeq(s, 1, Len(s) - 1), t) \o <<s[Len(s)]>>
  ELSE s \o <<t>>

RECURSIVE sorted(_)
sorted(ts) ==
  IF ts = << >> THEN << >>
  ELSE InsertTone(sorted(SubSeq(ts, 1, Len(ts) - 1)), ts[Len(ts)])

(***************************************************************************)
(* build_scl (xenharmonikon.py).                                           *)
(***************************************************************************)
\* getattr(Author, author)
AuthorName(author) ==
  CASE author = "london" -> <<"Larry", " ", "London">>
    [] author = "wilson" -> <<"Erv", " ", "Wilson">>

\* JOURNAL[journal]
JOURNAL(journal) ==
  CASE journal = "xen06" ->
         [number |-> <<"6">>,
          name |-> <<"Xenharmonikon", " ", "6", " ", "(", "1", "9", "7", "7", ")">>]
    [] journal = "xen09" ->
         [number |-> <<"9">>,
          name |-> <<"Xenharmonikon", " ", "9", " ", "(", "1", "9", "8", "6", ")">>]

\* s.replace(old, new) for one-token old and new
Replace(s, old, new) == [k \in 1..Len(s) |-> IF s[k] = old THEN new ELSE s[k]]

MaxLen(strs) ==
  CHOOSE m \in {Len(strs[k]) : k \in 1..Len(strs)} :
    \A k \in 1..Len(strs) : Len(strs[k]) <= m

build_scl(description, tones, title, function, comments, page) ==
  LET filename     == Replace(function, "_", "-") \o <<".", "scl">>
      journal      == function[1]
      author       == function[3]
      author_name  == AuthorName(author)
      info         == << << <<"source">>, <<"Xenharmonikon">> >>,
                         << <<"whole", "_", "number">>, JOURNAL(journal).number >> >>
      srt          == sorted(tones)
      tone_strings == [k \in 1..Len(srt) |-> tone_string(srt[k])]
      max_len      == MaxLen(tone_strings)
      tone_lines   == [k \in 1..Len(srt) |-> <<" ">> \o scl_line(srt[k], max_len + 1)]
      journal_name == IF page # None
                      THEN JOURNAL(journal).name \o <<",", " ", "p", ".">> \o page
                      ELSE JOURNAL(journal).name
      scl_lines    ==
           << <<"!", " ">> \o filename, <<"!">>, description,
              <<" ">> \o IntStr(Len(tones)), <<"!">> >>
        \o tone_lines
        \o << <<"!">>, <<"!", " ">> \o author_name, <<"!", " ">> \o title,
              <<"!", " ">> \o journal_name >>
        \o (IF comments # NoLines
            THEN << <<"!">> >> \o [k \in 1..Len(comments) |-> <<"!", " ">> \o comments[k]]
            ELSE << >>)
        \o << <<"!">>, <<"!", " ", "[", "info", "]">> >>
        \o [k \in 1..Len(info) |->
              <<"!", " ">> \o info[k][1] \o <<" ", "=", " ">> \o info[k][2]]
      reference    == author_name \o <<",", " ">> \o title \o <<",", " ">> \o journal_name
  IN  IF \E k \in 1..Len(tones) : tone_string(tones[k]) = None
      THEN Raise("TypeError")
      ELSE IF tones = << >> THEN Raise("ValueError")
      ELSE Return([filename |-> filename, scl_text |-> scl_lines,
                   reference |-> reference])

(***************************************************************************)
(* tuning_library (an external package): parse_scl_data, as the callers    *)
(* in utils.py, mailing_lists.py and damusc.py use it.  A scale object     *)
(* keeps the text it was read from (raw_text) and, per tone, the tone's    *)
(* line (string_rep) and its cents.  Lines that start with "!" are         *)
(* comments; the first other line is the description, the second the       *)
(* count (read with atoi), then come count tone lines: a line with a "."   *)
(* is a cent value (atof), any other line a ratio n/d or n (atoi).  No     *)
(* text of this model holds, after its count tone lines, a line that is    *)
(* neither empty nor a comment.                                            *)
(***************************************************************************)
NaN == NoneNum

RECURSIVE DigitPrefix(_)
DigitPrefix(s) ==
  IF s # << >> /\ s[1] \in DigitSet THEN <<s[1]>> \o DigitPrefix(Tail(s))
  ELSE << >>

Drop(s, n) == SubSeq(s, n + 1, Len(s))

\* v * 10^k for -7 <= k <= 7, cut to seven fractional digits
DecShift(v, k) ==
  IF k = 0 THEN v
  ELSE IF k < 0
  THEN D(v.i \div 10^(-k), (v.i % 10^(-k)) * 10^(7 + k) + v.f \div 10^(-k))
  ELSE D(v.i * 10^k + v.f \div 10^(7 - k), (v.f % 10^(7 - k)) * 10^k)

\* the digits after a decimal point as a number of 10^-7 units
Frac7(digs) == ParseNat(SubSeq(digs \o <<"0", "0", "0", "0", "0", "0", "0">>, 1, 7))

\* a leading "-" of t, and t without it
HasSign(t) == t # << >> /\ t[1] = "-"

Unsigned(t) == IF HasSign(t) THEN Tail(t) ELSE t

Signed(neg, v) == IF neg THEN DecNeg(v) ELSE v

\* the leading digits of u and what follows them
ScanDigits(u) == [digits |-> DigitPrefix(u), rest |-> Drop(u, Len(DigitPrefix(u)))]

\* a "." and the digits after it at the head of r, and what follows them
ScanFrac(r) ==
  IF r # << >> /\ r[1] = "."
  THEN [digits |-> DigitPrefix(Tail(r)), rest |-> Drop(r, 1 + Len(DigitPrefix(Tail(r))))]
  ELSE [digits |-> << >>, rest |-> r]

\* C's atoi/atoll: blanks, a sign, then the leading digits; 0 without digits
AtoiSigned(t) == [neg |-> HasSign(t), n |-> ParseBig(DigitPrefix(Unsigned(t)))]

Atoi(s) == AtoiSigned(LStrip(s))

\* C's atof: blanks, a sign, digits, a fraction, an exponent; it stops at
\* the first token that does not fit
AtofPow(mant, eneg, ed) ==
  IF ed = << >> THEN mant
  ELSE DecShift(mant, IF eneg THEN -ParseNat(ed) ELSE ParseNat(ed))

AtofExp(mant, r) ==
  AtofPow(mant, HasSign(r),
          DigitPrefix(IF r # << >> /\ r[1] \in {"-", "+"} THEN Tail(r) ELSE r))

AtofMant(ip, fr) ==
  IF ip \o fr.digits # << >> /\ fr.rest # << >> /\ fr.rest[1] \in {"e", "E"}
  THEN AtofExp(D(ParseNat(ip), Frac7(fr.digits)), Tail(fr.rest))
  ELSE Double(D(ParseNat(ip), Frac7(fr.digits)))

AtofDigits(sd) == AtofMant(sd.digits, ScanFrac(sd.rest))

AtofSigned(t) == Signed(HasSign(t), AtofDigits(ScanDigits(Unsigned(t))))

Atof(s) == AtofSigned(LStrip(s))

\* toneFromString: the ratio n/d read from a line without "."
TlRatio(line, n, d) ==
  IF BigIsZero(n.n) \/ BigIsZero(d.n) THEN Raise("TuningError")
  ELSE Return([string_rep |-> line,
               cents |-> IF n.neg # d.neg THEN NaN ELSE CentsOfRatio(n.n, d.n)])

TlSplit(line, slash) ==
  IF slash = 0 THEN TlRatio(line, Atoi(line), [neg |-> FALSE, n |-> Big(0, 1)])
  ELSE TlRatio(line, Atoi(SubSeq(line, 1, slash - 1)), Atoi(Drop(line, slash)))

TlTone(line) ==
  IF Contains(line, <<".">>)
  THEN Return([string_rep |-> line, cents |-> Atof(line)])
  ELSE TlSplit(line, Find(line, <<"/">>))

IsComment(line) == line # << >> /\ line[1] = "!"

NotComment(line) == ~IsComment(line)

NotEmpty(line) == line # << >>

\* readSCLStream: the tones of the count lines that follow the count
TlTones(text, notes, n) ==
  IF Len(notes) < n THEN Raise("TuningError")
  ELSE IF \E k \in 1..n : TlTone(notes[k]).exc # "" THEN Raise("TuningError")
  ELSE Return([raw_text |-> text, tones |-> [k \in 1..n |-> TlTone(notes[k]).val]])

TlCount(text, nc, count) ==
  IF count.neg \/ count.n.hi # 0 \/ count.n.lo < 1 THEN Raise("TuningError")
  ELSE TlTones(text, SelectSeq(Drop(nc, 2), NotEmpty), count.n.lo)

TlLines(text, nc) ==
  IF Len(nc) < 2 THEN Raise("TuningError") ELSE TlCount(text, nc, Atoi(nc[2]))

\* parse_scl_data(text)
parse_scl_data(text) == TlLines(text, SelectSeq(text, NotComment))

(***************************************************************************)
(* The validator (utils.py).                                               *)
(***************************************************************************)
\* the line the loop of check_count_line stops at: the second line that
\* is no comment, or the last line of the text when there is none
RECURSIVE CountLineIndex(_, _, _)
CountLineIndex(text, k, count) ==
  IF k > Len(text) THEN Len(text)
  ELSE IF IsComment(text[k]) THEN CountLineIndex(text, k + 1, count)
  ELSE IF count + 1 = 2 THEN k
  ELSE CountLineIndex(text, k + 1, count + 1)

\* check_count_line that looks at the first token of the line only
check_count_line_start(scl_text) ==
  IF scl_text = << >> THEN Raise("UnboundLocalError")
  ELSE IF ~IsDigitStr(SubSeq(Strip(scl_text[CountLineIndex(scl_text, 1, 0)]), 1, 1))
  THEN Return(FALSE)
  ELSE Return(TRUE)

check_count_line(scl_text) ==
  IF scl_text = << >> THEN Raise("UnboundLocalError")
  ELSE LET line == scl_text[CountLineIndex(scl_text, 1, 0)]
       IN  IF ~IsDigitStr(Strip(line)) THEN Return(FALSE) ELSE Return(TRUE)

base_tone_string(tone_str) ==
  RemoveSuffix(Strip(BeforeFirst(tone_str, <<"!">>)), <<"cents">>)

\* re.fullmatch(r"[0-9./\s-]*", s)
AllowedText(s) ==
  \A k \in 1..Len(s) : s[k] \in DigitSet \cup {".", "/", "-"} \cup Whitespace

\* float(s) for a string that AllowedText accepts
PyFloatMant(neg, ip, fr) ==
  IF ip \o fr.digits = << >> \/ fr.rest # << >> THEN Raise("ValueError")
  ELSE Return(Signed(neg, Double(D(ParseNat(ip), Frac7(fr.digits)))))

PyFloatDigits(neg, sd) == PyFloatMant(neg, sd.digits, ScanFrac(sd.rest))

PyFloatSigned(t) == PyFloatDigits(HasSign(t), ScanDigits(Unsigned(t)))

PyFloat(s) == PyFloatSigned(Strip(s))

\* a "/" and the digits after it at the head of r, and what follows them
ScanDenominator(r) ==
  IF r # << >> /\ r[1] = "/"
  THEN [slash |-> TRUE, digits |-> DigitPrefix(Tail(r)),
        rest |-> Drop(r, 1 + Len(DigitPrefix(Tail(r))))]
  ELSE [slash |-> FALSE, digits |-> << >>, rest |-> r]

\* 1200 * log2(Fraction(s)) for a string that AllowedText accepts and that
\* holds no "."
PyLogRatio(neg, n, d) ==
  IF BigIsZero(d) THEN Raise("ZeroDivisionError")
  ELSE IF neg \/ BigIsZero(n) THEN Raise("ValueError")
  ELSE Return(CentsOfRatio(n, d))

PyLogParts(neg, np, den) ==
  IF np = << >> \/ den.rest # << >> \/ (den.slash /\ den.digits = << >>)
  THEN Raise("ValueError")
  ELSE PyLogRatio(neg, ParseBig(np),
                  IF den.slash THEN ParseBig(den.digits) ELSE Big(0, 1))

PyLogDigits(neg, sd) == PyLogParts(neg, sd.digits, ScanDenominator(sd.rest))

PyLogSigned(t) == PyLogDigits(HasSign(t), ScanDigits(Unsigned(t)))

PyLogFraction(s) == PyLogSigned(Strip(s))

\* int(s) for a string that AllowedText accepts
PyIntSigned(t) ==
  IF IsDigitStr(Unsigned(t)) THEN Return([neg |-> HasSign(t), n |-> ParseBig(Unsigned(t))])
  ELSE Raise("ValueError")

PyInt(s) == PyIntSigned(Strip(s))

\* the body of the loop of validate_scale for one tone: "next" to go on
\* with the next tone, "False" to return False, or the exception raised.
\* First the cent value of the text,
CentValue(tone_text) ==
  IF ~Contains(tone_text, <<".">>) THEN PyLogFraction(tone_text)
  ELSE PyFloat(tone_text)

\* then the large-integer check,
CheckInt(int_value) ==
  IF int_value.exc = "" /\ ~int_value.val.neg /\ BigLeq(ToBig(100), int_value.val.n)
  THEN "False"
  ELSE "next"

\* the loop body of validate_scale without the comparison of the cents
CheckCentsUncompared(cent_value, cents, tone_text) ==
  IF cent_value.exc = "ValueError" THEN "False"
  ELSE IF cent_value.exc # "" THEN cent_value.exc
  ELSE CheckInt(PyInt(tone_text))

\* after the comparison of the cent value with the cents of the tone
CheckCents(cent_value, cents, tone_text) ==
  IF cent_value.exc = "ValueError" THEN "False"
  ELSE IF cent_value.exc # "" THEN cent_value.exc
  ELSE IF cents # NaN /\ DecLt(D(0, 10000), DecAbsDiff(cent_value.val, cents))
  THEN "False"
  ELSE CheckInt(PyInt(tone_text))

CheckText(tone_text, cents) ==
  IF ~AllowedText(tone_text) THEN "False"
  ELSE CheckCents(CentValue(tone_text), cents, tone_text)

ValidateTone(t) == CheckText(base_tone_string(t.string_rep), t.cents)

RECURSIVE ValidateTones(_, _)
AfterTone(outcome, tones, k) ==
  IF outcome = "next" THEN ValidateTones(tones, k + 1)
  ELSE IF outcome = "False" THEN Return(FALSE)
  ELSE Raise(outcome)

ValidateTones(tones, k) ==
  IF k > Len(tones) THEN Return(TRUE)
  ELSE AfterTone(ValidateTone(tones[k]), tones, k)

AfterCountLine(counted, scale) ==
  IF counted.exc # "" THEN counted
  ELSE IF ~counted.val THEN Return(FALSE)
  ELSE IF TextContains(scale.raw_text, <<"<", "div">>) THEN Return(FALSE)
  ELSE IF TextContains(scale.raw_text, <<"<", "p", ">">>) THEN Return(FALSE)
  ELSE ValidateTones(scale.tones, 1)

validate_scale(scale) == AfterCountLine(check_count_line(scale.raw_text), scale)

(***************************************************************************)
(* The fingerprint of a scale (mailing_lists.py, damusc.py):               *)
(* tuple(sorted(round(tone.cents, 5) for tone in scale.tones)).            *)
(***************************************************************************)
RECURSIVE InsertDec(_, _)
InsertDec(s, v) ==
  IF s = << >> THEN <<v>>
  ELSE IF DecLt(v, s[Len(s)]) THEN InsertDec(SubSeq(s, 1, Len(s) - 1), v) \o <<s[Len(s)]>>
  ELSE s \o <<v>>

RECURSIVE SortDec(_)
SortDec(s) ==
  IF s = << >> THEN << >>
  ELSE InsertDec(SortDec(SubSeq(s, 1, Len(s) - 1)), s[Len(s)])

\* the fingerprint without sorted()
FingerprintUnsorted(scale) ==
  [k \in 1..Len(scale.tones) |-> Round(scale.tones[k].cents, 5)]

Fingerprint(scale) ==
  SortDec([k \in 1..Len(scale.tones) |-> Round(scale.tones[k].cents, 5)])

(***************************************************************************)
(* reduce (xenharmonikon.py), on fractions.Fraction values.                *)
(***************************************************************************)
RECURSIVE Gcd(_, _)
Gcd(a, b) == IF b = 0 THEN a ELSE Gcd(b, a % b)

\* Fraction(n, d) for n, d > 0: in lowest terms
Fraction(n, d) == [num |-> n \div Gcd(n, d), den |-> d \div Gcd(n, d)]

FracMul(x, k) == Fraction(x.num * k, x.den)

FracDiv(x, k) == Fraction(x.num, x.den * k)

\* x <= k
FracLeq(x, k) == x.num <= k * x.den

\* reduce with `while x < 1` for `while x <= 1`
RECURSIVE reduce_up_below(_)
reduce_up_below(x) ==
  IF x.num < x.den THEN reduce_up_below(FracMul(x, 2)) ELSE x

\* while x <= 1: x *= 2
RECURSIVE reduce_up(_)
reduce_up(x) == IF FracLeq(x, 1) THEN reduce_up(FracMul(x, 2)) ELSE x

\* reduce with `if x > 2` for `while x > 2`
reduce_down_once(x) == IF ~FracLeq(x, 2) THEN FracDiv(x, 2) ELSE x

\* while x > 2: x /= 2
RECURSIVE reduce_down(_)
reduce_down(x) == IF ~FracLeq(x, 2) THEN reduce_down(FracDiv(x, 2)) ELSE x

reduce(x) == reduce_down(reduce_up(x))

(***************************************************************************)
(* Inputs.                                                                 *)
(***************************************************************************)
\* the sequences over S of length at most n
SeqsUpTo(S, n) == UNION {[1..k -> S] : k \in 0..n}

P1200 == D(1200, 0)

RatioArg(n, d, period, comment, cents) ==
  [form |-> "ratio", rx |-> n, ry |-> d, cx |-> NoneNum, ctype |-> "float",
   places |-> 0, period |-> period, cents |-> cents, comment |-> comment]

CentsArg(type, v, places, period, comment) ==
  [form |-> "cents", rx |-> NoneBig, ry |-> NoneBig,
   cx |-> IF type = "float" THEN Double(v) ELSE v, ctype |-> type,
   places |-> places, period |-> Double(period), cents |-> NoneNum,
   comment |-> comment]

\* Tone(...) calls: ratios inside, on the edge of and outside the period;
\* ratios around the scl integer limit 2^31 - 1 = 2147483647; floats,
\* Decimals and ints as cent values.
ToneArgs ==
  { RatioArg(Big(0, 3), Big(0, 2), P1200, None, NoneNum),
    RatioArg(Big(0, 2), Big(0, 1), P1200, None, NoneNum),
    RatioArg(Big(0, 16), Big(0, 15), P1200, None, NoneNum),
    RatioArg(Big(0, 9), Big(0, 8), P1200, <<"tone">>, NoneNum),
    RatioArg(Big(0, 1), Big(0, 1), P1200, None, NoneNum),
    RatioArg(Big(0, 1), Big(0, 2), P1200, None, NoneNum),
    RatioArg(Big(0, 3), Big(0, 1), P1200, None, NoneNum),
    RatioArg(Big(0, 3), Big(0, 1), D(2400, 0), None, NoneNum),
    RatioArg(Big(0, 3), Big(0, 2), P1200, None, D(702, 0)),
    RatioArg(Big(0, 3), Big(0, 2), P1200, None, D(700, 0)),
    RatioArg(Big(0, 0), Big(0, 1), P1200, None, NoneNum),
    RatioArg(Big(0, 1), Big(0, 0), P1200, None, NoneNum),
    RatioArg(Big(21474, 83647), Big(10737, 41824), P1200, None, NoneNum),
    RatioArg(Big(21474, 83648), Big(10737, 41824), P1200, None, NoneNum),
    RatioArg(Big(21474, 83648), Big(21474, 83647), P1200, None, NoneNum),
    RatioArg(Big(32212, 25472), Big(21474, 83648), P1200, None, NoneNum),
    CentsArg("float", D(701, 9550000), 0, P1200, None),
    CentsArg("float", D(386, 3137139), 0, P1200, <<"third">>),
    CentsArg("float", D(0, 500), 0, P1200, None),
    CentsArg("float", D(0, 0), 0, P1200, None),
    CentsArg("float", D(1202, 1000000), 0, D(1202, 1000000), None),
    CentsArg("float", D(1200, 1), 0, P1200, None),
    CentsArg("Decimal", D(701, 9550000), 3, P1200, None),
    CentsArg("Decimal", D(386, 3137135), 7, P1200, None),
    CentsArg("Decimal", D(50, 0), 0, P1200, None),
    CentsArg("Decimal", D(1300, 0), 0, P1200, None),
    CentsArg("int", D(700, 0), 0, P1200, None),
    CentsArg("int", D(1300, 0), 0, P1200, None) }

\* the other arguments of build_scl
TheDescription == <<"Ditone", " ", "diatonic">>

TheTitle == <<"Eight", " ", "Pieces">>

TheFunction == <<"xen06", "_", "london", "_", "ditone">>

BuildKw ==
  { [comments |-> NoLines, page |-> None],
    [comments |-> << <<"see", " ", "text">> >>, page |-> <<"1", "2">>] }

(***************************************************************************)
(* SpecTone: Tone(...) for each argument list, build_scl on the Tones,     *)
(* parse_scl_data on the text, validate_scale on the scale.                *)
(***************************************************************************)
ToneIdle ==
  /\ targs = << >> /\ tkw = None /\ tobjs = << >> /\ scl = None
  /\ parsed = None /\ verdict = None /\ pcT = "idle" /\ texc = ""

FpIdle == fpIn = << >> /\ fpA = None /\ fpB = None /\ pcF = "idle"

ValIdle == vtext = << >> /\ vscale = None /\ vres = None /\ pcV = "idle"

RedIdle == redIn = None /\ red1 = None /\ red2 = None /\ pcR = "idle"

MailIdle ==
  /\ results = << >> /\ ordered = << >> /\ mIdx = 0 /\ filenames = {}
  /\ all_tones = {} /\ mFiles = {} /\ mRet = None /\ pcM = "idle"

DamIdle ==
  /\ rows = << >> /\ dIdx = 0 /\ dFilenames = {} /\ built = << >>
  /\ tones_to_scl = << >> /\ dGroup = 0 /\ dFiles = {} /\ dRet = None
  /\ pcD = "idle"

CheckIdle ==
  /\ cTree = {} /\ cSeen = {} /\ counter = << >> /\ cRet = None /\ pcC = "idle"

RunIdle ==
  /\ rOut = << >> /\ rTree = {} /\ rIdx = 0 /\ rCounts = << >> /\ rRefs = << >>
  /\ rTotal = None /\ rRet = None /\ rLine = 0 /\ rReadme = FALSE /\ rIndex = FALSE
  /\ pcRun = "idle"

InfoIdle ==
  /\ iIn = None /\ iText = << >> /\ iMeta = {} /\ iRet = None /\ pcI = "idle"

ExtIdle ==
  /\ email_lines = << >> /\ scl_starts = << >> /\ eIdx = 0 /\ eResults = << >>
  /\ eRet = None /\ pcE = "idle"

CntIdle == kText = << >> /\ kRet = None /\ pcK = "idle"

CpsIdle == cpsIn = None /\ cpsRet = None /\ pcP = "idle"

TriIdle ==
  /\ triLists = << >> /\ triFamily = 0 /\ triIdx = 0 /\ TRITRIADIC_TONES = {}
  /\ registered = {} /\ triExc = "" /\ pcY = "idle"

MoreIdle == ExtIdle /\ CntIdle /\ CpsIdle /\ TriIdle

TreeIdle == CheckIdle /\ RunIdle /\ InfoIdle /\ MoreIdle

InitTone ==
  /\ targs \in SeqsUpTo(ToneArgs, MaxTones)
  /\ tkw \in BuildKw
  /\ tobjs = << >> /\ scl = None /\ parsed = None /\ verdict = None
  /\ pcT = "construct" /\ texc = ""
  /\ FpIdle /\ ValIdle /\ RedIdle /\ MailIdle /\ DamIdle /\ TreeIdle

\* the next Tone(...) call
NewTone ==
  /\ pcT = "construct" /\ texc = "" /\ Len(tobjs) < Len(targs)
  /\ LET r == ToneInit(targs[Len(tobjs) + 1])
     IN  IF r.exc = ""
         THEN tobjs' = Append(tobjs, r.val) /\ texc' = texc
         ELSE tobjs' = tobjs /\ texc' = r.exc
  /\ UNCHANGED <<targs, tkw, scl, parsed, verdict, pcT>>
  /\ UNCHANGED <<fpVars, valVars, redVars, mailVars, damVars, treeVars>>

BuildScl ==
  /\ pcT = "construct" /\ texc = "" /\ Len(tobjs) = Len(targs)
  /\ LET r == build_scl(TheDescription, tobjs, TheTitle, TheFunction,
                        tkw.comments, tkw.page)
     IN  IF r.exc = ""
         THEN scl' = r.val /\ texc' = texc
         ELSE scl' = scl /\ texc' = r.exc
  /\ pcT' = "build"
  /\ UNCHANGED <<targs, tkw, tobjs, parsed, verdict>>
  /\ UNCHANGED <<fpVars, valVars, redVars, mailVars, damVars, treeVars>>

ReadScl ==
  /\ pcT = "build" /\ texc = ""
  /\ LET r == parse_scl_data(scl.scl_text)
     IN  IF r.exc = ""
         THEN parsed' = r.val /\ texc' = texc
         ELSE parsed' = parsed /\ texc' = r.exc
  /\ pcT' = "parse"
  /\ UNCHANGED <<targs, tkw, tobjs, scl, verdict>>
  /\ UNCHANGED <<fpVars, valVars, redVars, mailVars, damVars, treeVars>>

Validate ==
  /\ pcT = "parse" /\ texc = ""
  /\ LET r == validate_scale(parsed)
     IN  IF r.exc = ""
         THEN verdict' = r.val /\ texc' = texc
         ELSE verdict' = verdict /\ texc' = r.exc
  /\ pcT' = "validate"
  /\ UNCHANGED <<targs, tkw, tobjs, scl, parsed>>
  /\ UNCHANGED <<fpVars, valVars, redVars, mailVars, damVars, treeVars>>

NextTone == NewTone \/ BuildScl \/ ReadScl \/ Validate

SpecTone == InitTone /\ [][NextTone]_vars

(***************************************************************************)
(* SpecReduce: reduce applied to a fraction, and again to its result.      *)
(***************************************************************************)
InitReduce ==
  /\ \E n \in 1..MaxNum, d \in 1..MaxNum : redIn = Fraction(n, d)
  /\ red1 = None /\ red2 = None /\ pcR = "start"
  /\ ToneIdle /\ FpIdle /\ ValIdle /\ MailIdle /\ DamIdle /\ TreeIdle

ReduceOnce ==
  /\ pcR = "start"
  /\ red1' = reduce(redIn)
  /\ pcR' = "once"
  /\ UNCHANGED <<redIn, red2>>
  /\ UNCHANGED <<toneVars, fpVars, valVars, mailVars, damVars, treeVars>>

ReduceTwice ==
  /\ pcR = "once"
  /\ red2' = reduce(red1)
  /\ pcR' = "twice"
  /\ UNCHANGED <<redIn, red1>>
  /\ UNCHANGED <<toneVars, fpVars, valVars, mailVars, damVars, treeVars>>

NextReduce == ReduceOnce \/ ReduceTwice

SpecReduce == InitReduce /\ [][NextReduce]_vars


(***************************************************************************)
(* SpecFp: one scale written twice by build_scl, once with ratio Tones     *)
(* and once with float Tones that hold the cents as the serializer         *)
(* renders them, each text read back and fingerprinted as the generation   *)
(* passes do.                                                              *)
(***************************************************************************)
\* ratios n/d with 1 < n/d <= 2
FpRatios ==
  { <<3, 2>>, <<2, 1>>, <<16, 15>>, <<9, 8>>, <<5, 4>>, <<4, 3>>, <<5, 3>>,
    <<7, 4>>, <<15, 8>>, <<6, 5>> }

\* Tone(n, d)
RatioTone(r) == ToneInit(RatioArg(Big(0, r[1]), Big(0, r[2]), P1200, None, NoneNum)).val

\* Tone(round(Tone(n, d).cents, rounding))
RoundedTone(r) ==
  ToneInit(CentsArg("float", Round(RatioTone(r).cents, rounding), 0, P1200, None)).val

\* the fingerprint of the scale read from the text build_scl gives for tones
BuiltText(tones) ==
  build_scl(TheDescription, tones, TheTitle, TheFunction, NoLines, None).val.scl_text

WrittenFingerprint(tones) == Fingerprint(parse_scl_data(BuiltText(tones)).val)

InitFp ==
  /\ fpIn \in SeqsUpTo(FpRatios, MaxTones) \ {<< >>}
  /\ fpA = None /\ fpB = None /\ pcF = "start"
  /\ ToneIdle /\ ValIdle /\ RedIdle /\ MailIdle /\ DamIdle /\ TreeIdle

FpRatioScale ==
  /\ pcF = "start"
  /\ fpA' = WrittenFingerprint([k \in 1..Len(fpIn) |-> RatioTone(fpIn[k])])
  /\ pcF' = "ratios"
  /\ UNCHANGED <<fpIn, fpB>>
  /\ UNCHANGED <<toneVars, valVars, redVars, mailVars, damVars, treeVars>>

FpCentScale ==
  /\ pcF = "ratios"
  /\ fpB' = WrittenFingerprint([k \in 1..Len(fpIn) |-> RoundedTone(fpIn[k])])
  /\ pcF' = "done"
  /\ UNCHANGED <<fpIn, fpA>>
  /\ UNCHANGED <<toneVars, valVars, redVars, mailVars, damVars, treeVars>>

NextFp == FpRatioScale \/ FpCentScale

SpecFp == InitFp /\ [][NextFp]_vars

(***************************************************************************)
(* SpecValidate: a scale text is read with parse_scl_data and the scale    *)
(* is handed to validate_scale.                                            *)
(***************************************************************************)
\* what stands before the count line, and what the count line holds around
\* the count
Headers ==
  { [before |-> << <<"!", " ", "f", ".", "scl">>, <<"!">>, <<"desc">> >>,
     left |-> <<" ">>, right |-> << >>],
    [before |-> << <<"1", "2", " ", "extra", " ", "words">> >>,
     left |-> <<" ">>, right |-> << >>],
    [before |-> << <<"!", " ", "f", ".", "scl">>, <<"desc">> >>,
     left |-> << >>, right |-> <<" ", "extra", " ", "words">>],
    [before |-> << <<"!", " ", "<", "div", ">">>, <<"desc">> >>,
     left |-> <<" ">>, right |-> << >>],
    [before |-> << <<"<", "p", ">">> >>,
     left |-> <<" ">>, right |-> << >>],
    [before |-> << <<"desc">>, <<"!">> >>,
     left |-> <<" ", " ">>, right |-> <<" ", "\t">>] }

ToneLines ==
  { <<" ", "3", "/", "2">>,
    <<" ", "2", "/", "1">>,
    <<" ", "7", "0", "1", ".", "9", "5", "5">>,
    <<" ", "1", "0", "0", ".", "0", " ", "cents">>,
    <<" ", "3", "/", "2", " ", "cents">>,
    <<" ", "3", "/", "2", " ", "!", " ", "5", ".", "0">>,
    <<" ", "9", "/", "8", " ", " ", "!", " ", "tone">>,
    <<" ", "5", "e", "-", "0", "5">>,
    <<" ", "7", "0", "0">>,
    <<" ", "5", "0">>,
    <<" ", "3", "/", "0", " ", "!", " ", "1", ".", "5">>,
    <<" ", "-", "5", ".", "0">>,
    <<" ", "1", "0", "0">>,
    <<" ", "9", "9">>,
    <<" ", "1", "0", "0", "/", "1">> }

ScaleText(h, lines) ==
  h.before \o << h.left \o IntStr(Len(lines)) \o h.right >> \o lines
    \o << <<"!">>, <<"!", " ", "end">> >>

\* twelve tones under the count line "12 extra words"
TwelveText ==
  << <<"!", " ", "f", ".", "scl">>, <<"desc">>,
     <<"1", "2", " ", "extra", " ", "words">> >>
    \o [k \in 1..12 |-> <<" ", "3", "/", "2">>]

Texts ==
  {ScaleText(h, lines) : h \in Headers, lines \in SeqsUpTo(ToneLines, MaxTones) \ {<< >>}}
    \cup {TwelveText}

InitValidate ==
  /\ vtext \in Texts
  /\ vscale = None /\ vres = None /\ pcV = "start"
  /\ ToneIdle /\ FpIdle /\ RedIdle /\ MailIdle /\ DamIdle /\ TreeIdle

ParseText ==
  /\ pcV = "start"
  /\ vscale' = parse_scl_data(vtext)
  /\ pcV' = "parsed"
  /\ UNCHANGED <<vtext, vres>>
  /\ UNCHANGED <<toneVars, fpVars, redVars, mailVars, damVars, treeVars>>

ValidateScale ==
  /\ pcV = "parsed" /\ vscale.exc = ""
  /\ vres' = validate_scale(vscale.val)
  /\ pcV' = "done"
  /\ UNCHANGED <<vtext, vscale>>
  /\ UNCHANGED <<toneVars, fpVars, redVars, mailVars, damVars, treeVars>>

NextValidate == ParseText \/ ValidateScale

SpecValidate == InitValidate /\ [][NextValidate]_vars

(***************************************************************************)
(* check_scl_dir (utils.py).  The tree under dir_path is a set of files    *)
(* [name, text], with a field dir where the tree has subdirectories; rglob *)
(* gives its .scl files in no fixed order, so the call ends with the       *)
(* failure of any file that fails.                                         *)
(***************************************************************************)
DotScl == <<".", "scl">>

\* the loop body for one file: "" when the file passes
FileValidated(valid) ==
  IF valid.exc # "" THEN valid.exc
  ELSE IF ~valid.val THEN "ScaleValidationError"
  ELSE ""

FileRead(scale) ==
  IF scale.exc # "" THEN scale.exc ELSE FileValidated(validate_scale(scale.val))

FileFailure(file) == FileRead(parse_scl_data(file.text))

\* the exception of the loop body without the scale
FileRaisedBare(file) == Raise(FileFailure(file))

\* what the loop body raises for a file that fails: ScaleValidationError
\* holds the scale
FileRaised(file) ==
  IF FileFailure(file) = "ScaleValidationError"
  THEN [exc |-> "ScaleValidationError", val |-> parse_scl_data(file.text).val]
  ELSE Raise(FileFailure(file))

\* dir_path.rglob("*.scl")
SclFiles(files) ==
  {f \in files : Len(f.name) >= 2 /\ SubSeq(f.name, Len(f.name) - 1, Len(f.name)) = DotScl}

\* counter[p] += 1 with the whole path for key
CountPath(c, file) ==
  [n \in DOMAIN c \cup {file.dir \o <<"/">> \o file.name} |->
     IF n = file.dir \o <<"/">> \o file.name
     THEN (IF n \in DOMAIN c THEN c[n] ELSE 0) + 1 ELSE c[n]]

\* counter[p.name] += 1
CountFile(c, file) ==
  [n \in DOMAIN c \cup {file.name} |->
     IF n = file.name THEN (IF n \in DOMAIN c THEN c[n] ELSE 0) + 1 ELSE c[n]]

\* counter.total()
RECURSIVE CounterTotal(_, _)
CounterTotal(c, keys) ==
  IF keys = {} THEN 0
  ELSE c[CHOOSE n \in keys : TRUE]
         + CounterTotal(c, keys \ {CHOOSE n \in keys : TRUE})

\* from the assertion on: counter.most_common()[0] is the entry with the
\* largest count, and there is none in an empty Counter
CheckCounter(c) ==
  IF DOMAIN c = {} THEN Raise("IndexError")
  ELSE IF \E n \in DOMAIN c : c[n] # 1 THEN Raise("AssertionError")
  ELSE Return(CounterTotal(c, DOMAIN c))

\* the Counter after a loop through files that all pass
RECURSIVE CounterOf(_)
CounterOf(files) ==
  IF files = {} THEN << >>
  ELSE CountFile(CounterOf(files \ {CHOOSE f \in files : TRUE}),
                 CHOOSE f \in files : TRUE)

\* the outcomes of check_scl_dir(dir_path)
check_scl_dir(files) ==
  IF \E f \in SclFiles(files) : FileFailure(f) # ""
  THEN {FileRaised(f) : f \in {g \in SclFiles(files) : FileFailure(g) # ""}}
  ELSE {CheckCounter(CounterOf(SclFiles(files)))}

\* (dir / filename).write_text(text)
WriteText(files, filename, text) ==
  {f \in files : f.name # filename} \cup {[name |-> filename, text |-> text]}

(***************************************************************************)
(* write_out_results (mailing_lists.py).                                   *)
(***************************************************************************)
ListOrder(list_name) ==
  CASE list_name = <<"tuning">> -> 0
    [] list_name = <<"makemicromusic">> -> 1
    [] list_name = <<"tuning", "-", "math">> -> 2
    [] list_name = <<"metatuning">> -> 3
    [] list_name = <<"mills", "-", "tuning", "-", "list">> -> 4
    [] list_name = <<"harmonic", "_", "entropy">> -> 5
    [] list_name = <<"crazy", "_", "music">> -> 6

sort_key(result) == <<ListOrder(result.list_name), result.message.msgId>>

KeyLt(a, b) == a[1] < b[1] \/ (a[1] = b[1] /\ a[2] < b[2])

\* sorted(results, key=sort_key): stable
RECURSIVE InsertResult(_, _)
InsertResult(s, r) ==
  IF s = << >> THEN <<r>>
  ELSE IF KeyLt(sort_key(r), sort_key(s[Len(s)]))
  THEN InsertResult(SubSeq(s, 1, Len(s) - 1), r) \o <<s[Len(s)]>>
  ELSE s \o <<r>>

\* the results in the order of extraction
UnsortedResults(rs) == rs

RECURSIVE SortResults(_)
SortResults(rs) ==
  IF rs = << >> THEN << >>
  ELSE InsertResult(SortResults(SubSeq(rs, 1, Len(rs) - 1)), rs[Len(rs)])

NotDropped(c) == c \notin {"!", " ", "="}

\* Path(s).name for a path s with "/" as separator
RECURSIVE PathName(_)
PathName(s) ==
  IF Find(s, <<"/">>) = 0 THEN s ELSE PathName(SubSeq(s, Find(s, <<"/">>) + 1, Len(s)))

\* the filename taken from the first line of the scale text
ResultFilename(first_line) ==
  BeforeFirst(PathName(Replace(SelectSeq(first_line, NotDropped), "\\", "/")), DotScl)
    \o DotScl

\* Path.suffix and Path.stem of a name that ends with ".scl"
PathSuffix(filename) == IF Len(filename) > 2 THEN DotScl ELSE << >>

PathStem(filename) ==
  IF Len(filename) > 2 THEN SubSeq(filename, 1, Len(filename) - 2) ELSE filename

ClashName(filename, result) ==
  PathStem(filename) \o <<"_">> \o result.list_name \o <<"_">>
    \o IntStr(result.message.topicId) \o <<"_">> \o IntStr(result.message.msgId)
    \o PathSuffix(filename)

\* text.rstrip() of a text given as its lines
RECURSIVE RStripText(_)
RStripText(text) ==
  IF text = << >> THEN << >>
  ELSE IF RStrip(text[Len(text)]) = << >> THEN RStripText(SubSeq(text, 1, Len(text) - 1))
  ELSE SubSeq(text, 1, Len(text) - 1) \o <<RStrip(text[Len(text)])>>

WrittenText(result) ==
  RStripText(result.scale.raw_text)
    \o << <<"!">>,
          <<"!", " ", "https", ":", "/", "/", "yahootuninggroupsultimatebackup",
            ".", "github", ".", "io", "/">> \o result.list_name
            \o <<"/", "topicId", "_">> \o IntStr(result.message.topicId)
            \o <<".", "html", "#">> \o IntStr(result.message.msgId),
          <<"!">>,
          <<"!", " ", "[", "info", "]">>,
          <<"!", " ", "source", " ", "=", " ", "Mailing", " ", "lists">>,
          <<"!", " ", "file", " ", "=", " ">> \o result.json_file_path,
          <<"!", " ", "topic", "_", "id", " ", "=", " ">> \o IntStr(result.message.topicId),
          <<"!", " ", "msg", "_", "id", " ", "=", " ">> \o IntStr(result.message.msgId) >>

\* the end of the loop body without the second test of the file name
MailWriteUnchecked(st, result, filename) ==
  [st EXCEPT !.filenames = @ \cup {filename},
             !.files = WriteText(@, filename, WrittenText(result))]

\* One pass of the loop of write_out_results.  st holds the two local sets,
\* the files of the directory and the exception raised, "" for none.  From
\* the end of the body to its start: the file is written,
MailWrite(st, result, filename) ==
  IF filename \in st.filenames THEN [st EXCEPT !.exc = "ValueError"]
  ELSE [st EXCEPT !.filenames = @ \cup {filename},
                  !.files = WriteText(@, filename, WrittenText(result))]

\* after the scale is skipped when its tones are in all_tones,
MailTones(st, result, filename, tones) ==
  IF tones \in st.all_tones THEN st
  ELSE MailWrite([st EXCEPT !.all_tones = @ \cup {tones}], result,
                 IF filename \in st.filenames THEN ClashName(filename, result)
                 ELSE filename)

\* a loop body that writes the scale whatever validate_scale returned
MailValidatedIgnored(st, result, filename, valid) ==
  IF valid.exc # "" THEN [st EXCEPT !.exc = valid.exc]
  ELSE MailTones(st, result, filename, Fingerprint(result.scale))

\* a loop body that enters the tones and the file name in the two sets
\* before validate_scale is asked
MailValidatedLate(st, result, filename, valid) ==
  IF valid.exc # "" THEN [st EXCEPT !.exc = valid.exc]
  ELSE IF ~valid.val
  THEN [st EXCEPT !.all_tones = @ \cup {Fingerprint(result.scale)},
                  !.filenames = @ \cup {filename}]
  ELSE MailTones(st, result, filename, Fingerprint(result.scale))

\* or when validate_scale does not accept it
MailValidated(st, result, filename, valid) ==
  IF valid.exc # "" THEN [st EXCEPT !.exc = valid.exc]
  ELSE IF ~valid.val THEN st
  ELSE MailTones(st, result, filename, Fingerprint(result.scale))

MailBody(st, result) ==
  MailValidated(st, result, ResultFilename(result.scale.raw_text[1]),
                validate_scale(result.scale))

(***************************************************************************)
(* SpecMail: write_out_results on a list of results.                       *)
(***************************************************************************)
MailText(first_line, tone_lines) ==
  << first_line, <<"!">>, <<"desc">>, <<" ">> \o IntStr(Len(tone_lines)) >>
    \o tone_lines

Result(list_name, msgId, topicId, text) ==
  [scale |-> parse_scl_data(text).val,
   message |-> [msgId |-> msgId, topicId |-> topicId],
   list_name |-> list_name,
   json_file_path |-> <<"messages", ".", "json">>]

MeantoneLine == <<"!", " ", "meantone", ".", "scl">>

\* results with equal tones in two spellings and two orders, with one
\* file name for different tones, two of them from one message, a scale
\* the validator refuses for a tone, and two it refuses for "<div" and "<p>"
\* that have the name and the tones of scales it accepts
ResultCorpus ==
  { Result(<<"tuning">>, 5, 1,
           MailText(MeantoneLine, << <<" ", "3", "/", "2">>, <<" ", "2", "/", "1">> >>)),
    Result(<<"makemicromusic">>, 2, 2,
           MailText(<<"!", " ", "mt", "2", ".", "scl">>,
                    << <<" ", "7", "0", "1", ".", "9", "5", "5">>,
                       <<" ", "1", "2", "0", "0", ".", "0">> >>) \o << << >> >>),
    Result(<<"tuning">>, 3, 3,
           MailText(<<"!", " ", "scales", "\\", "meantone", ".", "scl", " ">>,
                    << <<" ", "5", "/", "4">>, <<" ", "2", "/", "1">> >>)),
    Result(<<"tuning">>, 7, 4,
           MailText(<<"!", " ", "bad", ".", "scl">>, << <<" ", "7", "0", "0">> >>)),
    Result(<<"tuning">>, 3, 3,
           MailText(MeantoneLine, << <<" ", "4", "/", "3">>, <<" ", "2", "/", "1">> >>)),
    Result(<<"tuning">>, 1, 1,
           MailText(MeantoneLine, << <<" ", "9", "/", "8">>, <<" ", "2", "/", "1">> >>)),
    Result(<<"metatuning">>, 1, 9,
           MailText(<<"!", " ", "swap", ".", "scl">>,
                    << <<" ", "2", "/", "1">>, <<" ", "3", "/", "2">> >>)),
    Result(<<"tuning">>, 2, 1,
           MailText(MeantoneLine, << <<" ", "3", "/", "2">>, <<" ", "2", "/", "1">> >>)
             \o << <<"!", " ", "<", "div", " ", "class", "=", "msg", ">">> >>),
    Result(<<"makemicromusic">>, 1, 2,
           MailText(<<"!", " ", "mt", "2", ".", "scl">>,
                    << <<" ", "7", "0", "1", ".", "9", "5", "5">>,
                       <<" ", "1", "2", "0", "0", ".", "0">> >>)
             \o << <<"!", " ", "<", "p", ">", "end">> >>) }

\* what an earlier run may have left in the directory
StaleFiles ==
  { {}, {[name |-> <<"old", ".", "scl">>,
          text |-> MailText(<<"!", " ", "old", ".", "scl">>, << <<" ", "2", "/", "1">> >>)]} }

InitMail ==
  /\ results \in SeqsUpTo(ResultCorpus, MaxResults)
  /\ mFiles \in StaleFiles
  /\ ordered = << >> /\ mIdx = 0 /\ filenames = {} /\ all_tones = {}
  /\ mRet = None /\ pcM = "start"
  /\ ToneIdle /\ FpIdle /\ ValIdle /\ RedIdle /\ DamIdle /\ TreeIdle

\* up to the loop: the directory is emptied and the results are sorted
MailStart ==
  /\ pcM = "start"
  /\ mFiles' = {}
  /\ ordered' = SortResults(results)
  /\ pcM' = "loop"
  /\ UNCHANGED <<results, mIdx, filenames, all_tones, mRet>>
  /\ UNCHANGED <<toneVars, fpVars, valVars, redVars, damVars, treeVars>>

\* one pass of the loop
MailStep ==
  /\ pcM = "loop" /\ mIdx < Len(ordered)
  /\ LET st == MailBody([filenames |-> filenames, all_tones |-> all_tones,
                         files |-> mFiles, exc |-> ""], ordered[mIdx + 1])
     IN  /\ filenames' = st.filenames
         /\ all_tones' = st.all_tones
         /\ mFiles' = st.files
         /\ IF st.exc = ""
            THEN mRet' = mRet /\ pcM' = pcM
            ELSE mRet' = Raise(st.exc) /\ pcM' = "done"
  /\ mIdx' = mIdx + 1
  /\ UNCHANGED <<results, ordered>>
  /\ UNCHANGED <<toneVars, fpVars, valVars, redVars, damVars, treeVars>>

\* return check_scl_dir(result_dir)
MailReturn ==
  /\ pcM = "loop" /\ mIdx = Len(ordered)
  /\ mRet' \in check_scl_dir(mFiles)
  /\ pcM' = "done"
  /\ UNCHANGED <<results, ordered, mIdx, filenames, all_tones, mFiles>>
  /\ UNCHANGED <<toneVars, fpVars, valVars, redVars, damVars, treeVars>>

NextMail == MailStart \/ MailStep \/ MailReturn

SpecMail == InitMail /\ [][NextMail]_vars

(***************************************************************************)
(* damusc.py: measured_df_to_scl, write_measured_scales, main.             *)
(* A row of measured_scales.csv, merged with its source, is                *)
(* [country, name, steps, octave_modified, reference, measured_id,         *)
(* ref_id]; steps are the numbers of the column Intervals.                 *)
(***************************************************************************)
\* transform("cumsum") of the steps
RECURSIVE CumSum(_)
CumSum(steps) ==
  IF steps = << >> THEN << >>
  ELSE IF Len(steps) = 1 THEN steps
  ELSE CumSum(SubSeq(steps, 1, Len(steps) - 1))
         \o <<DecAdd(CumSum(SubSeq(steps, 1, Len(steps) - 1))[Len(steps) - 1],
                     steps[Len(steps)])>>

\* the tone lines of the row
OctaveAdded(info, intervals) ==
  IF info.octave_modified = "Y"
  THEN Append(intervals,
              <<" ", "1", "2", "0", "0", ".", "0", " ", "!", " ", "Octave", " ",
                "added", " ", "to", " ", "measured", " ", "scale">>)
  ELSE intervals

RoundedIntervals(sums) ==
  [k \in 1..Len(sums) |-> <<" ">> \o FloatStr(Round(sums[k], 6))]

Intervals(info) == OctaveAdded(info, RoundedIntervals(CumSum(info.steps)))

NotDotOrBlank(c) == c \notin {".", " "}

Underscore(c) == IF c \in {" ", "/", "'"} THEN "_" ELSE c

\* the file name made of country and name
RowFilename(info) ==
  [k \in 1..Len(SelectSeq(info.country, NotDotOrBlank) \o <<"_">> \o info.name \o DotScl) |->
     Underscore((SelectSeq(info.country, NotDotOrBlank) \o <<"_">> \o info.name \o DotScl)[k])]

\* the first name stem_i.scl, counting i up, that is not in filenames
RECURSIVE NumberedName(_, _, _)
NumberedName(stem, i, names) ==
  IF (stem \o <<"_">> \o IntStr(i) \o DotScl) \in names
  THEN NumberedName(stem, i + 1, names)
  ELSE stem \o <<"_">> \o IntStr(i) \o DotScl

\* the collision resolution that tries the suffix _2 only
FreeFilenameOnce(filename, names) ==
  IF filename \in names THEN PathStem(filename) \o <<"_", "2">> \o DotScl
  ELSE filename

FreeFilename(filename, names) ==
  IF filename \in names THEN NumberedName(PathStem(filename), 2, names)
  ELSE filename

\* textwrap.wrap(reference) for a reference shorter than a line
Wrap(reference) == IF Strip(reference) = << >> THEN << >> ELSE <<Strip(reference)>>

RowText(info, filename, intervals) ==
  << <<"!", " ">> \o filename,
     <<"!">>,
     <<"Measured", " ", "scale", " ">> \o info.measured_id \o <<" ", "in", " ", "DaMuSc">>,
     <<" ">> \o IntStr(Len(intervals)),
     <<"!">> >>
    \o intervals
    \o << <<"!">> >>
    \o [k \in 1..Len(Wrap(info.reference)) |-> <<"!", " ">> \o Wrap(info.reference)[k]]
    \o << <<"!">>,
          <<"!", " ", "[", "info", "]">>,
          <<"!", " ", "source", " ", "=", " ", "DaMuSc">>,
          <<"!", " ", "measured", "_", "id", " ", "=", " ">> \o info.measured_id,
          <<"!", " ", "ref", "_", "id", " ", "=", " ">> \o info.ref_id >>

RowScl(info, filename, names) ==
  [filename |-> filename, scl_text |-> RowText(info, filename, Intervals(info)),
   reference |-> info.reference, filenames |-> names \cup {filename}]

\* measured_df_to_scl(df, filenames) for the one row info of df; the
\* result holds the set filenames as the call leaves it
measured_df_to_scl(info, names) == RowScl(info, FreeFilename(RowFilename(info), names), names)

\* tones_to_scl[tones].append(item), the dict kept in insertion order
AppendScl(groups, tones, item) ==
  IF \E k \in 1..Len(groups) : groups[k].tones = tones
  THEN [k \in 1..Len(groups) |->
          IF groups[k].tones = tones
          THEN [groups[k] EXCEPT !.scales = Append(@, item)]
          ELSE groups[k]]
  ELSE Append(groups, [tones |-> tones, scales |-> <<item>>])

rechberger == <<"Rechberger">>

RechbergerCount(scales) ==
  Cardinality({k \in 1..Len(scales) : TextContains(scales[k].scl_text, rechberger)})

RECURSIVE WriteOriginals(_, _, _)
WriteOriginals(files, scales, k) ==
  IF k > Len(scales) THEN files
  ELSE IF ~TextContains(scales[k].scl_text, rechberger)
  THEN WriteOriginals(WriteText(files, scales[k].filename, scales[k].scl_text),
                      scales, k + 1)
  ELSE WriteOriginals(files, scales, k + 1)

\* the second loop without the assertion on the Rechberger count
WriteScalesUnasserted(files, scales) ==
  IF Len(scales) = 1
  THEN Return(WriteText(files, scales[1].filename, scales[1].scl_text))
  ELSE IF Len(scales) # 2 THEN Raise("AssertionError")
  ELSE Return(WriteOriginals(files, scales, 1))

\* one pass of the second loop of write_measured_scales, for the scales
\* of one entry of tones_to_scl
WriteScales(files, scales) ==
  IF Len(scales) = 1
  THEN Return(WriteText(files, scales[1].filename, scales[1].scl_text))
  ELSE IF Len(scales) # 2 THEN Raise("AssertionError")
  ELSE IF RechbergerCount(scales) # 1 THEN Raise("AssertionError")
  ELSE Return(WriteOriginals(files, scales, 1))

(***************************************************************************)
(* SpecDamusc: main of damusc.py on the rows of measured_scales.csv.       *)
(***************************************************************************)
Row(country, name, steps, octave_modified, reference) ==
  [country |-> country, name |-> name, steps |-> steps,
   octave_modified |-> octave_modified, reference |-> reference,
   measured_id |-> << >>, ref_id |-> <<"R", "1">>]

Kunst == <<"Kunst", " ", "1", "9", "4", "9">>

Rechberger2008 == <<"Rechberger", " ", "2", "0", "0", "8">>

\* rows with equal tones from Rechberger and from others, and with equal
\* file names
RowCorpus ==
  { Row(<<"Java">>, <<"Slendro">>, <<D(200, 0), D(500, 0)>>, "N", Kunst),
    Row(<<"Java">>, <<"Pelog">>, <<D(200, 0), D(500, 0)>>, "N", Rechberger2008),
    Row(<<"Java">>, <<"Slendro">>, <<D(300, 0), D(400, 5000000)>>, "N",
        <<"Ellis", " ", "1", "8", "8", "5">>),
    Row(<<"S", ".", " ", "Africa">>, <<"Mbira", " ", "tuning">>, <<D(700, 0)>>, "Y",
        Rechberger2008),
    Row(<<"Java">>, <<"Slendro", "_", "2">>, <<D(700, 0), D(500, 0)>>, "N", Kunst),
    Row(<<"Thailand">>, <<"Ranat">>, <<D(200, 0), D(500, 0)>>, "N", Rechberger2008),
    Row(<<"Bali">>, <<"Gender">>, <<D(200, 0), D(500, 0)>>, "N",
        <<"McPhee", " ", "1", "9", "6", "6">>) }

\* the rows in MeasuredID order
Numbered(rs) ==
  [k \in 1..Len(rs) |-> [rs[k] EXCEPT !.measured_id = <<"M">> \o PadInt(k, 4)]]

InitDamusc ==
  /\ \E rs \in SeqsUpTo(RowCorpus, MaxRows) : rows = Numbered(rs)
  /\ dFiles \in StaleFiles
  /\ dIdx = 0 /\ dFilenames = {} /\ built = << >> /\ tones_to_scl = << >>
  /\ dGroup = 0 /\ dRet = None /\ pcD = "start"
  /\ ToneIdle /\ FpIdle /\ ValIdle /\ RedIdle /\ MailIdle /\ TreeIdle

\* main up to the call of write_measured_scales: the directory is emptied
DamStart ==
  /\ pcD = "start"
  /\ dFiles' = {}
  /\ pcD' = "build"
  /\ UNCHANGED <<rows, dIdx, dFilenames, built, tones_to_scl, dGroup, dRet>>
  /\ UNCHANGED <<toneVars, fpVars, valVars, redVars, mailVars, treeVars>>

\* one pass of the first loop of write_measured_scales
DamBuild ==
  /\ pcD = "build" /\ dIdx < Len(rows)
  /\ LET r == measured_df_to_scl(rows[dIdx + 1], dFilenames)
     IN  /\ dFilenames' = r.filenames
         /\ built' = Append(built, [filename |-> r.filename, scl_text |-> r.scl_text,
                                    reference |-> r.reference])
         /\ tones_to_scl' =
              AppendScl(tones_to_scl, Fingerprint(parse_scl_data(r.scl_text).val),
                        [filename |-> r.filename, scl_text |-> r.scl_text])
  /\ dIdx' = dIdx + 1
  /\ UNCHANGED <<rows, dGroup, dFiles, dRet, pcD>>
  /\ UNCHANGED <<toneVars, fpVars, valVars, redVars, mailVars, treeVars>>

\* one pass of the second loop
DamWrite ==
  /\ pcD = "build" /\ dIdx = Len(rows) /\ dGroup < Len(tones_to_scl)
  /\ LET w == WriteScales(dFiles, tones_to_scl[dGroup + 1].scales)
     IN  IF w.exc = ""
         THEN dFiles' = w.val /\ dRet' = dRet /\ pcD' = pcD
         ELSE dFiles' = dFiles /\ dRet' = Raise(w.exc) /\ pcD' = "done"
  /\ dGroup' = dGroup + 1
  /\ UNCHANGED <<rows, dIdx, dFilenames, built, tones_to_scl>>
  /\ UNCHANGED <<toneVars, fpVars, valVars, redVars, mailVars, treeVars>>

\* return utils.check_scl_dir(OUTPUT_DIR), references
DamReturn ==
  /\ pcD = "build" /\ dIdx = Len(rows) /\ dGroup = Len(tones_to_scl)
  /\ dRet' \in check_scl_dir(dFiles)
  /\ pcD' = "done"
  /\ UNCHANGED <<rows, dIdx, dFilenames, built, tones_to_scl, dGroup, dFiles>>
  /\ UNCHANGED <<toneVars, fpVars, valVars, redVars, mailVars, treeVars>>

NextDamusc == DamStart \/ DamBuild \/ DamWrite \/ DamReturn

SpecDamusc == InitDamusc /\ [][NextDamusc]_vars

(***************************************************************************)
(* SpecCheck: check_scl_dir on a tree of files, file by file.              *)
(***************************************************************************)
TreeFile(dir, name, tone_line) ==
  [dir |-> dir, name |-> name,
   text |-> MailText(<<"!", " ">> \o name, <<tone_line>>)]

\* files of one name in two subdirectories, a file validate_scale refuses,
\* one it cannot handle, and a file that is no .scl file
TreeCorpus ==
  { TreeFile(<<"database", "-", "of", "-", "musical", "-", "scales">>,
             <<"a", ".", "scl">>, <<" ", "2", "/", "1">>),
    TreeFile(<<"mailing", "-", "lists">>, <<"a", ".", "scl">>, <<" ", "3", "/", "2">>),
    TreeFile(<<"xenharmonikon">>, <<"b", ".", "scl">>, <<" ", "5", "/", "4">>),
    TreeFile(<<"mailing", "-", "lists">>, <<"bad", ".", "scl">>, <<" ", "7", "0", "0">>),
    TreeFile(<<"divisions">>, <<"c", ".", "scl">>,
             <<" ", "3", "/", "0", " ", "!", " ", "1", ".", "5">>),
    TreeFile(<<"divisions">>, <<"d", ".", "scl">>, <<" ", "4", "/", "3">>),
    TreeFile(<< >>, <<"notes", ".", "txt">>, <<" ", "7", "0", "0">>) }

InitCheck ==
  /\ cTree \in SUBSET TreeCorpus
  /\ cSeen = {} /\ counter = << >> /\ cRet = None /\ pcC = "loop"
  /\ ToneIdle /\ FpIdle /\ ValIdle /\ RedIdle /\ MailIdle /\ DamIdle /\ RunIdle /\ InfoIdle /\ MoreIdle

\* one pass of the loop, for a file rglob has not given yet
CheckFile ==
  /\ pcC = "loop"
  /\ \E f \in SclFiles(cTree) \ cSeen :
       /\ cSeen' = cSeen \cup {f}
       /\ IF FileFailure(f) # ""
          THEN cRet' = FileRaised(f) /\ pcC' = "done" /\ counter' = counter
          ELSE cRet' = cRet /\ pcC' = pcC /\ counter' = CountFile(counter, f)
  /\ UNCHANGED cTree
  /\ UNCHANGED <<toneVars, fpVars, valVars, redVars, mailVars, damVars, runVars, infoVars,
               moreVars>>

\* from the assertion to the return
CheckEnd ==
  /\ pcC = "loop" /\ cSeen = SclFiles(cTree)
  /\ cRet' = CheckCounter(counter)
  /\ pcC' = "done"
  /\ UNCHANGED <<cTree, cSeen, counter>>
  /\ UNCHANGED <<toneVars, fpVars, valVars, redVars, mailVars, damVars, runVars, infoVars,
               moreVars>>

NextCheck == CheckFile \/ CheckEnd

SpecCheck == InitCheck /\ [][NextCheck]_vars

(***************************************************************************)
(* run_all.py: main.  The four sources are called in the order of the      *)
(* code; what a source writes into its directory is an input here, and     *)
(* its main is the end of that main: the check of its directory and the    *)
(* return.  Of write_readme, build_index and to_csv the model keeps that    *)
(* the README and the scale index have been written.                       *)
(***************************************************************************)
Sources == <<"damusc", "divisions", "mailing_lists", "xenharmonikon">>

\* OUTPUT_DIR of a source, under SCALES_DIR
SourceDir(s) ==
  CASE s = "damusc" -> <<"database", "-", "of", "-", "musical", "-", "scales">>
    [] s = "divisions" -> <<"divisions">>
    [] s = "mailing_lists" -> <<"mailing", "-", "lists">>
    [] s = "xenharmonikon" -> <<"xenharmonikon">>

\* the sources whose main ends with "return utils.check_scl_dir(...),
\* references"; the others end with "return utils.check_scl_dir(...)" or
\* "return count"
ReturnsPair(s) == s \in {"damusc", "xenharmonikon"}

\* the references a source returns: a citation for each file name
References(files) == {f.name : f \in files}

\* what main of the source s returns or raises with files in its directory
SourceReturn(s, checked, files) ==
  IF checked.exc # "" THEN checked
  ELSE IF ReturnsPair(s)
  THEN Return([pair |-> TRUE, count |-> checked.val, references |-> References(files)])
  ELSE Return([pair |-> FALSE, count |-> checked.val, references |-> None])

source_main(s, files) == {SourceReturn(s, c, files) : c \in check_scl_dir(files)}

\* "count, references = source.main()"
Unpack(returned) ==
  IF returned.exc # "" THEN returned
  ELSE IF ~returned.val.pair THEN Raise("TypeError")
  ELSE returned

RECURSIVE SumSeq(_)
SumSeq(s) == IF s = << >> THEN 0 ELSE s[1] + SumSeq(Tail(s))

RECURSIVE UnionSeq(_)
UnionSeq(s) == IF s = << >> THEN {} ELSE s[1] \cup UnionSeq(Tail(s))

\* the assertion on the merged references
MergeReferences(refs) ==
  IF Cardinality(UnionSeq(refs)) # SumSeq([k \in 1..Len(refs) |-> Cardinality(refs[k])])
  THEN Raise("AssertionError")
  ELSE Return(None)

\* main from the check of the whole tree on: the consistency pass, then
\* write_readme, the assertion on the merged references, build_index and
\* to_csv.  line is the line main ends at.
CompareCounts(total, counts, refs) ==
  IF total.exc # ""
  THEN [ret |-> total, total |-> None, line |-> 30, readme |-> FALSE, index |-> FALSE]
  ELSE IF total.val # SumSeq(counts)
  THEN [ret |-> Raise("AssertionError"), total |-> total.val, line |-> 31,
        readme |-> FALSE, index |-> FALSE]
  ELSE IF MergeReferences(refs).exc # ""
  THEN [ret |-> MergeReferences(refs), total |-> total.val, line |-> 52,
        readme |-> TRUE, index |-> FALSE]
  ELSE [ret |-> Return(None), total |-> total.val, line |-> 56,
        readme |-> TRUE, index |-> TRUE]

AfterSources(tree, counts, refs) ==
  {CompareCounts(t, counts, refs) : t \in check_scl_dir(tree)}

\* a main that goes on to the README and the index when a source fails
SourceFailedIgnored(returned, line) ==
  [ret |-> returned, line |-> line, readme |-> TRUE, index |-> TRUE]

\* the exception of a source's main or of the unpacking leaves main at the
\* line of the call
SourceFailed(returned, line) ==
  [ret |-> returned, line |-> line, readme |-> FALSE, index |-> FALSE]

(***************************************************************************)
(* SpecRun: main of run_all.py.                                            *)
(***************************************************************************)
\* what a source may write: nothing, files that pass, a file that
\* validate_scale refuses or cannot handle, a name another source uses
SourceFiles(s) ==
  SUBSET {f \in TreeCorpus : f.dir = SourceDir(s)}

InitRun ==
  /\ \E o \in SourceFiles(Sources[1]) \X SourceFiles(Sources[2])
               \X SourceFiles(Sources[3]) \X SourceFiles(Sources[4]) :
       rOut = [s \in {Sources[k] : k \in 1..Len(Sources)} |->
                 o[CHOOSE k \in 1..Len(Sources) : Sources[k] = s]]
  /\ rTree \in {{}, {f \in TreeCorpus : f.dir = <<"divisions">>}}
  /\ rIdx = 0 /\ rCounts = << >> /\ rRefs = << >> /\ rTotal = None
  /\ rRet = None /\ rLine = 0 /\ rReadme = FALSE /\ rIndex = FALSE /\ pcRun = "start"
  /\ ToneIdle /\ FpIdle /\ ValIdle /\ RedIdle /\ MailIdle /\ DamIdle /\ CheckIdle /\ InfoIdle /\ MoreIdle

\* shutil.rmtree(SCALES_DIR, ignore_errors=True); SCALES_DIR.mkdir()
RunStart ==
  /\ pcRun = "start"
  /\ rTree' = {}
  /\ pcRun' = "sources"
  /\ UNCHANGED <<rOut, rIdx, rCounts, rRefs, rTotal, rRet, rLine, rReadme, rIndex>>
  /\ UNCHANGED <<toneVars, fpVars, valVars, redVars, mailVars, damVars, checkVars, infoVars,
               moreVars>>

\* the call of the next source's main and the unpacking of what it returns;
\* after the last source main goes on to its end
RunSource ==
  /\ pcRun = "sources" /\ rIdx < Len(Sources)
  /\ rTree' = {f \in rTree : f.dir # SourceDir(Sources[rIdx + 1])}
                \cup rOut[Sources[rIdx + 1]]
  /\ \E m \in source_main(Sources[rIdx + 1], rOut[Sources[rIdx + 1]]) :
       IF Unpack(m).exc # ""
       THEN /\ rRet' = SourceFailed(Unpack(m), 25 + rIdx).ret
            /\ rLine' = SourceFailed(Unpack(m), 25 + rIdx).line
            /\ rReadme' = SourceFailed(Unpack(m), 25 + rIdx).readme
            /\ rIndex' = SourceFailed(Unpack(m), 25 + rIdx).index
            /\ pcRun' = "done"
            /\ UNCHANGED <<rIdx, rCounts, rRefs, rTotal>>
       ELSE /\ rIdx' = rIdx + 1
            /\ rCounts' = Append(rCounts, m.val.count)
            /\ rRefs' = Append(rRefs, m.val.references)
            /\ IF rIdx' < Len(Sources)
               THEN UNCHANGED <<rTotal, rRet, rLine, rReadme, rIndex, pcRun>>
               ELSE \E a \in AfterSources(rTree', rCounts', rRefs') :
                      /\ rTotal' = a.total /\ rRet' = a.ret /\ rLine' = a.line
                      /\ rReadme' = a.readme /\ rIndex' = a.index
                      /\ pcRun' = "done"
  /\ UNCHANGED rOut
  /\ UNCHANGED <<toneVars, fpVars, valVars, redVars, mailVars, damVars, checkVars, infoVars,
               moreVars>>

NextRun == RunStart \/ RunSource

SpecRun == InitRun /\ [][NextRun]_vars

(***************************************************************************)
(* utils.parse_info.  The lines from the first one that reads "[info]"     *)
(* once every "!" and the surrounding blanks are taken off go to           *)
(* configparser.ConfigParser().read_string; the result is the section      *)
(* "info" as a dictionary, here the set of its <<key, value>> pairs.       *)
(* No text of this model holds a "%", which the interpolation of           *)
(* ConfigParser would interpret in a value.                                *)
(***************************************************************************)
NotBang(tok) == tok # "!"

\* line.replace("!", "").strip()
StrippedLine(line) == Strip(SelectSeq(line, NotBang))

InfoHeader == <<"[", "info", "]">>

\* the index of the line at which started becomes True, 0 for none
FirstInfoLine(text) ==
  IF \E k \in 1..Len(text) : StrippedLine(text[k]) = InfoHeader
  THEN CHOOSE k \in 1..Len(text) :
         /\ StrippedLine(text[k]) = InfoHeader
         /\ \A j \in 1..(k - 1) : StrippedLine(text[j]) # InfoHeader
  ELSE 0

InfoLines(text) ==
  IF FirstInfoLine(text) = 0 THEN << >>
  ELSE [k \in 1..(Len(text) - FirstInfoLine(text) + 1) |->
          StrippedLine(text[FirstInfoLine(text) + k - 1])]

\* str.lower of a token; the tokens with capitals of the texts of this model
Lower(tok) ==
  CASE tok = "Mailing" -> "mailing"
    [] tok = "DaMuSc" -> "damusc"
    [] tok = "Xenharmonikon" -> "xenharmonikon"
    [] tok = "Scala" -> "scala"
    [] tok = "Source" -> "source"
    [] tok = "M" -> "m"
    [] tok = "R" -> "r"
    [] OTHER -> tok

\* optionxform(optname.rstrip())
OptionName(tokens) == [k \in 1..Len(RStrip(tokens)) |-> Lower(RStrip(tokens)[k])]

\* SECTCRE, \[(?P<header>.+)\], matched at the start of the line
IsSectionLine(value) ==
  /\ Len(value) > 2 /\ value[1] = "["
  /\ \E j \in 3..Len(value) : value[j] = "]"

SectionName(value) ==
  SubSeq(value, 2,
         (CHOOSE j \in 3..Len(value) :
            value[j] = "]" /\ \A i \in (j + 1)..Len(value) : value[i] # "]") - 1)

IsDelimiter(tok) == tok \in {"=", ":"}

\* the position of the delimiter _optcre stops at, 0 when the line has none
DelimiterAt(value) ==
  IF \E k \in 1..Len(value) : IsDelimiter(value[k])
  THEN CHOOSE k \in 1..Len(value) :
         IsDelimiter(value[k]) /\ \A j \in 1..(k - 1) : ~IsDelimiter(value[j])
  ELSE 0

DefaultSection == <<"DEFAULT">>

\* the parser before the first line: the sections and options added, the
\* name of the current section, the options as <<section, name, value>>,
\* whether a ParsingError is pending, and the exception raised
NewParser ==
  [added |-> {}, options_added |-> {}, sectname |-> None, options |-> {},
   e |-> FALSE, exc |-> ""]

ReadSection(st, header) ==
  IF header \in st.added THEN [st EXCEPT !.exc = "DuplicateSectionError"]
  ELSE IF header = DefaultSection THEN [st EXCEPT !.sectname = header]
  ELSE [st EXCEPT !.sectname = header, !.added = @ \cup {header}]

ReadOption(st, optname, optval, bad) ==
  IF <<st.sectname, optname>> \in st.options_added
  THEN [st EXCEPT !.exc = "DuplicateOptionError"]
  ELSE [st EXCEPT !.options_added = @ \cup {<<st.sectname, optname>>},
                  !.options = @ \cup {<<st.sectname, optname, optval>>},
                  !.e = @ \/ bad]

\* one pass of the loop of RawConfigParser._read
ReadLine(st, line) ==
  IF Strip(line) = << >> \/ Strip(line)[1] \in {"#", ";"} THEN st
  ELSE IF IsSectionLine(Strip(line)) THEN ReadSection(st, SectionName(Strip(line)))
  ELSE IF st.sectname = None THEN [st EXCEPT !.exc = "MissingSectionHeaderError"]
  ELSE IF DelimiterAt(Strip(line)) = 0 THEN [st EXCEPT !.e = TRUE]
  ELSE ReadOption(st,
                  OptionName(SubSeq(Strip(line), 1, DelimiterAt(Strip(line)) - 1)),
                  Strip(SubSeq(Strip(line), DelimiterAt(Strip(line)) + 1,
                               Len(Strip(line)))),
                  RStrip(SubSeq(Strip(line), 1, DelimiterAt(Strip(line)) - 1)) = << >>)

RECURSIVE ReadLines(_, _, _)
ReadLines(st, lines, k) ==
  IF k > Len(lines) \/ st.exc # "" THEN st
  ELSE ReadLines(ReadLine(st, lines[k]), lines, k + 1)

\* dict(c[section]): the options of the section and the defaults it does
\* not set
SectionDict(st, section) ==
  { <<o[2], o[3]>> : o \in { p \in st.options : p[1] = section } }
    \cup { <<o[2], o[3]>> :
             o \in { p \in st.options :
                       /\ p[1] = DefaultSection
                       /\ <<section, p[2]>> \notin st.options_added } }

read_string(lines) ==
  IF ReadLines(NewParser, lines, 1).exc # ""
  THEN Raise(ReadLines(NewParser, lines, 1).exc)
  ELSE IF ReadLines(NewParser, lines, 1).e THEN Raise("ParsingError")
  ELSE Return(ReadLines(NewParser, lines, 1))

parse_info(text) ==
  IF InfoLines(text) = << >> THEN Return(None)
  ELSE IF read_string(InfoLines(text)).exc # ""
  THEN Raise(read_string(InfoLines(text)).exc)
  ELSE Return(SectionDict(read_string(InfoLines(text)).val, <<"info">>))

(***************************************************************************)
(* SpecInfo: a source writes one file, parse_info reads its text.          *)
(***************************************************************************)
\* the info block of mailing_lists.write_out_results as a dictionary
MailInfo(result) ==
  { << <<"source">>, <<"Mailing", " ", "lists">> >>,
    << <<"file">>, result.json_file_path >>,
    << <<"topic", "_", "id">>, IntStr(result.message.topicId) >>,
    << <<"msg", "_", "id">>, IntStr(result.message.msgId) >> }

\* the info block of damusc.measured_df_to_scl as a dictionary
RowInfo(info) ==
  { << <<"source">>, <<"DaMuSc">> >>,
    << <<"measured", "_", "id">>, info.measured_id >>,
    << <<"ref", "_", "id">>, info.ref_id >> }

\* info of xenharmonikon.build_scl
XenInfo(function) ==
  { << <<"source">>, <<"Xenharmonikon">> >>,
    << <<"whole", "_", "number">>, JOURNAL(function[1]).number >> }

\* a scale posted with the info block of another library in its comments;
\* the other results have none
QuotedInfoResult ==
  Result(<<"tuning">>, 4, 2,
         MailText(<<"!", " ", "quoted", ".", "scl">>,
                  << <<" ", "3", "/", "2">>, <<" ", "2", "/", "1">> >>)
           \o << <<"!">>, <<"!", " ", "[", "info", "]">>,
                 <<"!", " ", "source", " ", "=", " ", "Scala">> >>)

InfoResults == ResultCorpus \cup {QuotedInfoResult}

\* the Tones build_scl can be given
InfoTones == { ToneInit(a).val : a \in { b \in ToneArgs : ToneInit(b).exc = "" } }

InitInfo ==
  /\ \/ \E result \in InfoResults :
          iIn = [source |-> "mailing_lists", arg |-> result]
     \/ \E rs \in SeqsUpTo(RowCorpus, MaxRows) : \E k \in 1..Len(rs) :
          iIn = [source |-> "damusc", arg |-> Numbered(rs)[k]]
     \/ \E tones \in SeqsUpTo(InfoTones, MaxTones) : \E kw \in BuildKw :
          iIn = [source |-> "xenharmonikon", arg |-> [tones |-> tones, kw |-> kw]]
  /\ iText = << >> /\ iMeta = {} /\ iRet = None /\ pcI = "source"
  /\ ToneIdle /\ FpIdle /\ ValIdle /\ RedIdle /\ MailIdle /\ DamIdle
  /\ CheckIdle /\ RunIdle /\ MoreIdle

FileWritten(text, info) == [written |-> TRUE, text |-> text, info |-> info]

NotWritten == [written |-> FALSE, text |-> << >>, info |-> {}]

\* the text a source writes and the info it serializes in it; nothing is
\* written when the source refuses the scale or raises
SourceWrites(in) ==
  CASE in.source = "mailing_lists" ->
         IF validate_scale(in.arg.scale).exc = "" /\ validate_scale(in.arg.scale).val
         THEN FileWritten(WrittenText(in.arg), MailInfo(in.arg))
         ELSE NotWritten
    [] in.source = "damusc" ->
         FileWritten(measured_df_to_scl(in.arg, {}).scl_text, RowInfo(in.arg))
    [] in.source = "xenharmonikon" ->
         IF build_scl(TheDescription, in.arg.tones, TheTitle, TheFunction,
                      in.arg.kw.comments, in.arg.kw.page).exc = ""
         THEN FileWritten(build_scl(TheDescription, in.arg.tones, TheTitle,
                                TheFunction, in.arg.kw.comments,
                                in.arg.kw.page).val.scl_text,
                      XenInfo(TheFunction))
         ELSE NotWritten

InfoWrite ==
  /\ pcI = "source"
  /\ iText' = SourceWrites(iIn).text
  /\ iMeta' = SourceWrites(iIn).info
  /\ pcI' = IF SourceWrites(iIn).written THEN "written" ELSE "refused"
  /\ UNCHANGED <<iIn, iRet>>
  /\ UNCHANGED <<toneVars, fpVars, valVars, redVars, mailVars, damVars, checkVars, runVars,
               moreVars>>

InfoParse ==
  /\ pcI = "written"
  /\ iRet' = parse_info(iText)
  /\ pcI' = "parsed"
  /\ UNCHANGED <<iIn, iText, iMeta>>
  /\ UNCHANGED <<toneVars, fpVars, valVars, redVars, mailVars, damVars, checkVars, runVars,
               moreVars>>

NextInfo == InfoWrite \/ InfoParse

SpecInfo == InitInfo /\ [][NextInfo]_vars

(***************************************************************************)
(* mailing_lists.extract_scales, for one message: email_lines is the text  *)
(* of the message after decoding and html.unescape, split into lines.      *)
(* Line k of the model is email_lines[k - 1] of the code.                  *)
(***************************************************************************)
\* re.match(".*!.*scl.*", line); the tokens of the model's lines that hold
\* "scl" are the token "scl" itself
IsSclStart(line) ==
  \E i \in 1..Len(line) : \E j \in (i + 1)..Len(line) : line[i] = "!" /\ line[j] = "scl"

RECURSIVE SclStartsFrom(_, _)
SclStartsFrom(lines, k) ==
  IF k > Len(lines) THEN << >>
  ELSE (IF IsSclStart(lines[k]) THEN <<k>> ELSE << >>) \o SclStartsFrom(lines, k + 1)

SclStarts(lines) == SclStartsFrom(lines, 1)

\* email_lines[scl_start : scl_start + i]
LinesFrom(lines, start, i) == SubSeq(lines, start, start + i - 1)

\* the values of i the loop tries: range(len(email_lines) - scl_start)
TriedLengths(lines, start) == 0..(Len(lines) - (start - 1) - 1)

Parses(text) == parse_scl_data(text).exc = ""

\* the i at which the loop breaks, -1 when it ends with found = False
FoundAt(lines, start) ==
  IF \E i \in TriedLengths(lines, start) : Parses(LinesFrom(lines, start, i))
  THEN CHOOSE i \in TriedLengths(lines, start) :
         /\ Parses(LinesFrom(lines, start, i))
         /\ \A j \in TriedLengths(lines, start) :
              j < i => ~Parses(LinesFrom(lines, start, j))
  ELSE -1

\* the while loop over the comment lines that follow
RECURSIVE WithComments(_, _, _)
WithComments(lines, start, i) ==
  IF (start - 1) + i < Len(lines) /\ IsComment(lines[start + i])
  THEN WithComments(lines, start, i + 1)
  ELSE i

\* the body of the loop over scl_starts: the results with the one of this
\* start appended, or the exception of the second parse
ExtractAt(res, lines, start) ==
  IF FoundAt(lines, start) = -1 THEN Return(res)
  ELSE IF ~Parses(LinesFrom(lines, start, WithComments(lines, start, FoundAt(lines, start))))
  THEN Raise(parse_scl_data(LinesFrom(lines, start,
                                      WithComments(lines, start, FoundAt(lines, start)))).exc)
  ELSE Return(Append(res,
         [start |-> start,
          scale |-> parse_scl_data(
                      LinesFrom(lines, start,
                                WithComments(lines, start, FoundAt(lines, start)))).val,
          list_name |-> <<"tuning">>,
          json_file_path |-> <<"messages", ".", "json">>]))

(***************************************************************************)
(* SpecExtract: extract_scales on one message.                             *)
(***************************************************************************)
SclName(stem) == <<"!", " ">> \o stem \o DotScl

\* scale texts: complete, with a comment between the tones, with the
\* description on two lines, with a tone missing
ScaleBodies ==
  { << SclName(<<"a">>), <<"!">>, <<"desc">>, <<" ", "2">>,
       <<" ", "3", "/", "2">>, <<" ", "2", "/", "1">> >>,
    << SclName(<<"b">>), <<"desc">>, <<" ", "1">>, <<" ", "2", "/", "1">> >>,
    << SclName(<<"c">>), <<"desc">>, <<" ", "2">>, <<" ", "5", "/", "4">>,
       <<"!", " ", "fifth">>, <<" ", "3", "/", "2">> >>,
    << SclName(<<"d">>), <<"a", " ", "scale">>, <<" ", "7", " ", "notes">>,
       <<" ", "1">>, <<" ", "2", "/", "1">> >>,
    << SclName(<<"e">>), <<"desc">>, <<" ", "2">>, <<" ", "3", "/", "2">> >> }

\* what a message holds before and after a scale
TextLines ==
  { <<"Hello">>, <<"!", " ", "a", " ", "note">>, <<"see", " ", "!", " ", "my", ".", "scl">> }

MessageCorpus ==
  { pre \o body \o post :
      pre \in SeqsUpTo(TextLines, 1), body \in ScaleBodies,
      post \in SeqsUpTo(TextLines, MaxTones) }

InitExtract ==
  /\ email_lines \in MessageCorpus
  /\ scl_starts = << >> /\ eIdx = 0 /\ eResults = << >> /\ eRet = None
  /\ pcE = "start"
  /\ ToneIdle /\ FpIdle /\ ValIdle /\ RedIdle /\ MailIdle /\ DamIdle
  /\ CheckIdle /\ RunIdle /\ InfoIdle /\ CntIdle /\ CpsIdle /\ TriIdle

\* the possible beginnings of scl files
ExtractStarts ==
  /\ pcE = "start"
  /\ scl_starts' = SclStarts(email_lines)
  /\ pcE' = "loop"
  /\ UNCHANGED <<email_lines, eIdx, eResults, eRet>>
  /\ UNCHANGED <<toneVars, fpVars, valVars, redVars, mailVars, damVars, checkVars, runVars,
                 infoVars, cntVars, cpsVars, triVars>>

\* one pass of the loop over scl_starts
ExtractStep ==
  /\ pcE = "loop" /\ eIdx < Len(scl_starts)
  /\ IF ExtractAt(eResults, email_lines, scl_starts[eIdx + 1]).exc = ""
     THEN /\ eResults' = ExtractAt(eResults, email_lines, scl_starts[eIdx + 1]).val
          /\ UNCHANGED <<eRet, pcE>>
     ELSE /\ eRet' = Raise(ExtractAt(eResults, email_lines, scl_starts[eIdx + 1]).exc)
          /\ pcE' = "done"
          /\ UNCHANGED eResults
  /\ eIdx' = eIdx + 1
  /\ UNCHANGED <<email_lines, scl_starts>>
  /\ UNCHANGED <<toneVars, fpVars, valVars, redVars, mailVars, damVars, checkVars, runVars,
                 infoVars, cntVars, cpsVars, triVars>>

\* return results
ExtractReturn ==
  /\ pcE = "loop" /\ eIdx = Len(scl_starts)
  /\ eRet' = Return(eResults)
  /\ pcE' = "done"
  /\ UNCHANGED <<email_lines, scl_starts, eIdx, eResults>>
  /\ UNCHANGED <<toneVars, fpVars, valVars, redVars, mailVars, damVars, checkVars, runVars,
                 infoVars, cntVars, cpsVars, triVars>>

NextExtract == ExtractStarts \/ ExtractStep \/ ExtractReturn

SpecExtract == InitExtract /\ [][NextExtract]_vars

(***************************************************************************)
(* SpecCount: check_count_line on a text.                                  *)
(***************************************************************************)
CountTextLines ==
  { <<"!", " ", "a", ".", "scl">>, <<"desc">>, <<" ", "2">>, <<"1", "2">>,
    << >>, <<" ", "3", "/", "2">>, <<"1", "2", " ", "notes">> }

InitCount ==
  /\ kText \in SeqsUpTo(CountTextLines, MaxTones + 1)
  /\ kRet = None /\ pcK = "call"
  /\ ToneIdle /\ FpIdle /\ ValIdle /\ RedIdle /\ MailIdle /\ DamIdle
  /\ CheckIdle /\ RunIdle /\ InfoIdle /\ ExtIdle /\ CpsIdle /\ TriIdle

CountCheck ==
  /\ pcK = "call"
  /\ kRet' = check_count_line(kText)
  /\ pcK' = "done"
  /\ UNCHANGED kText
  /\ UNCHANGED <<toneVars, fpVars, valVars, redVars, mailVars, damVars, checkVars, runVars,
                 infoVars, extVars, cpsVars, triVars>>

NextCount == CountCheck

SpecCount == InitCount /\ [][NextCount]_vars

(***************************************************************************)
(* xenharmonikon.cps: combination product sets.                            *)
(***************************************************************************)
\* itertools.combinations(numbers, count), in its order
RECURSIVE Combinations(_, _)
Combinations(numbers, count) ==
  IF count = 0 THEN << << >> >>
  ELSE IF Len(numbers) < count THEN << >>
  ELSE [k \in 1..Len(Combinations(Tail(numbers), count - 1)) |->
          <<numbers[1]>> \o Combinations(Tail(numbers), count - 1)[k]]
         \o Combinations(Tail(numbers), count)

\* math.prod
RECURSIVE Prod(_)
Prod(x) == IF x = << >> THEN 1 ELSE x[1] * Prod(Tail(x))

\* "*".join(map(str, x))
RECURSIVE JoinStar(_)
JoinStar(x) ==
  IF x = << >> THEN << >>
  ELSE IF Len(x) = 1 THEN IntStr(x[1])
  ELSE IntStr(x[1]) \o <<"*">> \o JoinStar(Tail(x))

\* root when the argument is None, written 0 here
CpsRoot(numbers, count, root) ==
  IF root = 0 THEN Prod(SubSeq(numbers, 1, IF count < Len(numbers) THEN count
                                           ELSE Len(numbers)))
  ELSE root

\* T.from_fraction(reduce(F(math.prod(x), root)), comment=...)
CpsTone(x, root) ==
  ToneInit(RatioArg(Big(0, reduce(Fraction(Prod(x), root)).num),
                    Big(0, reduce(Fraction(Prod(x), root)).den),
                    P1200, JoinStar(x), NoneNum))

\* set(tones): Tone defines neither __eq__ nor __hash__, so two Tone
\* objects are equal only when they are one object; the objects of the list
\* are its positions here
ToneObjects(tones) == { <<k, tones[k]>> : k \in 1..Len(tones) }

\* a set of Tones that compares the ratios
ToneRatios(tones) == { <<tones[k].ratio_n, tones[k].ratio_d>> : k \in 1..Len(tones) }

CpsTones(factors, root) == [k \in 1..Len(factors) |-> CpsTone(factors[k], root)]

CpsChecked(tones) ==
  IF \E k \in 1..Len(tones) : tones[k].exc # ""
  THEN Raise(tones[CHOOSE k \in 1..Len(tones) :
                     tones[k].exc # "" /\ \A j \in 1..(k - 1) : tones[j].exc = ""].exc)
  ELSE IF Len(tones) # Cardinality(ToneObjects([k \in 1..Len(tones) |-> tones[k].val]))
  THEN Raise("AssertionError")
  ELSE Return([k \in 1..Len(tones) |-> tones[k].val])

cps(numbers, count, root) ==
  CpsChecked(CpsTones(Combinations(numbers, count), CpsRoot(numbers, count, root)))

(***************************************************************************)
(* SpecCps: cps on lists of small numbers.                                 *)
(***************************************************************************)
\* numbers whose products of two reduce to ratios of integers up to 16
CpsNumbers == 1..4

CpsCounts == 1..2

InitCps ==
  /\ \E numbers \in [1..2 -> CpsNumbers] \cup [1..3 -> CpsNumbers] :
     \E count \in CpsCounts : \E root \in {0, 1, 3} :
       cpsIn = [numbers |-> numbers, count |-> count, root |-> root]
  /\ cpsRet = None /\ pcP = "call"
  /\ ToneIdle /\ FpIdle /\ ValIdle /\ RedIdle /\ MailIdle /\ DamIdle
  /\ CheckIdle /\ RunIdle /\ InfoIdle /\ ExtIdle /\ CntIdle /\ TriIdle

CpsCall ==
  /\ pcP = "call"
  /\ cpsRet' = cps(cpsIn.numbers, cpsIn.count, cpsIn.root)
  /\ pcP' = "done"
  /\ UNCHANGED cpsIn
  /\ UNCHANGED <<toneVars, fpVars, valVars, redVars, mailVars, damVars, checkVars, runVars,
                 infoVars, extVars, cntVars, triVars>>

NextCps == CpsCall

SpecCps == InitCps /\ [][NextCps]_vars

(***************************************************************************)
(* The tritriadic scales of xenharmonikon.py.  A tuple of sorted tones is  *)
(* the set of its tones here.                                              *)
(***************************************************************************)
ReducedSet(fracs) == { reduce(fracs[k]) : k \in 1..Len(fracs) }

\* tritriadic(a, b, c) before its assertion: M = b/a, D = c/a
tritriadic_tones(a, b, c) ==
  ReducedSet(<< Fraction(2 * a, c), Fraction(b, c), Fraction(2, 1),
                Fraction(1, 1), Fraction(b, a), Fraction(c, a),
                Fraction(c, a), Fraction(c * b, a * a), Fraction(c * c, a * a) >>)

tritriadic_mt_tones(a, b, c) ==
  ReducedSet(<< Fraction(2 * a, b), Fraction(2, 1), Fraction(c, b),
                Fraction(1, 1), Fraction(b, a), Fraction(c, a),
                Fraction(b, a), Fraction(b * b, a * a), Fraction(c * b, a * a) >>)

tritriadic_dm_tones(a, b, c) ==
  ReducedSet(<< Fraction(b, c), Fraction(b * b, a * c), Fraction(b, a),
                Fraction(1, 1), Fraction(b, a), Fraction(c, a),
                Fraction(c, b), Fraction(c, a), Fraction(c * c, a * b) >>)

\* assert len(tones) == 7; return tones
SevenTones(tones) ==
  IF Cardinality(tones) # 7 THEN Raise("AssertionError") ELSE Return(tones)

\* the function a family calls for its tones
FamilyTones(family, t) ==
  CASE family \in {1, 2} -> SevenTones(tritriadic_tones(t[1], t[2], t[3]))
    [] family = 3 -> SevenTones(tritriadic_mt_tones(t[1], t[2], t[3]))
    [] family = 4 -> SevenTones(tritriadic_dm_tones(t[1], t[2], t[3]))

\* globals()[name] = build: the name holds the family and the triple
Register(reg, family, t, tones) ==
  { r \in reg : ~(r.family = family /\ r.triple = t) }
    \cup { [family |-> family, triple |-> t, tones |-> tones] }

\* add_tritriadic
add_tritriadic(st, t, tones) ==
  IF tones.exc # "" THEN [st EXCEPT !.exc = tones.exc]
  ELSE [st EXCEPT !.seen = @ \cup {tones.val},
                  !.reg = Register(@, 1, t, tones.val)]

\* add_tritriadic_2, add_tritriadic_mt and add_tritriadic_dm
add_tritriadic_later(st, family, t, tones) ==
  IF tones.exc # "" THEN [st EXCEPT !.exc = tones.exc]
  ELSE IF tones.val \in st.seen THEN st
  ELSE [st EXCEPT !.seen = @ \cup {tones.val},
                  !.reg = Register(@, family, t, tones.val)]

(***************************************************************************)
(* SpecTri: the four loops at module level, one triple a step.             *)
(***************************************************************************)
\* triples of TRITRIADIC, two of them (6:7:9 and 3:7:9) with one tone set, and
\* one without seven tones
TripleCorpus ==
  { <<4, 5, 6>>, <<6, 7, 9>>, <<3, 7, 9>>, <<10, 12, 15>>, <<1, 2, 4>> }

\* lists without a repeated triple, as the assertions on the lists demand
DistinctLists(n) ==
  { s \in SeqsUpTo(TripleCorpus, n) : \A i \in 1..Len(s) : \A j \in 1..Len(s) :
                                        i # j => s[i] # s[j] }

InitTri ==
  /\ triLists \in DistinctLists(2) \X DistinctLists(1) \X DistinctLists(1)
                    \X DistinctLists(1)
  /\ triFamily = 1 /\ triIdx = 0 /\ TRITRIADIC_TONES = {} /\ registered = {}
  /\ triExc = "" /\ pcY = "loop"
  /\ ToneIdle /\ FpIdle /\ ValIdle /\ RedIdle /\ MailIdle /\ DamIdle
  /\ CheckIdle /\ RunIdle /\ InfoIdle /\ ExtIdle /\ CntIdle /\ CpsIdle

TriState == [seen |-> TRITRIADIC_TONES, reg |-> registered, exc |-> ""]

\* the triple the loop of the family is at
TriNext(family) ==
  /\ pcY = "loop" /\ triFamily = family /\ triIdx < Len(triLists[family])

TriAfter(st) ==
  /\ TRITRIADIC_TONES' = st.seen
  /\ registered' = st.reg
  /\ triExc' = st.exc
  /\ triIdx' = triIdx + 1
  /\ pcY' = IF st.exc # "" THEN "done" ELSE pcY
  /\ UNCHANGED <<triLists, triFamily>>
  /\ UNCHANGED <<toneVars, fpVars, valVars, redVars, mailVars, damVars, checkVars, runVars,
                 infoVars, extVars, cntVars, cpsVars>>

AddTritriadic ==
  /\ TriNext(1)
  /\ TriAfter(add_tritriadic(TriState, triLists[1][triIdx + 1],
                             FamilyTones(1, triLists[1][triIdx + 1])))

AddTritriadic2 ==
  /\ TriNext(2)
  /\ TriAfter(add_tritriadic_later(TriState, 2, triLists[2][triIdx + 1],
                                   FamilyTones(2, triLists[2][triIdx + 1])))

AddTritriadicMt ==
  /\ TriNext(3)
  /\ TriAfter(add_tritriadic_later(TriState, 3, triLists[3][triIdx + 1],
                                   FamilyTones(3, triLists[3][triIdx + 1])))

AddTritriadicDm ==
  /\ TriNext(4)
  /\ TriAfter(add_tritriadic_later(TriState, 4, triLists[4][triIdx + 1],
                                   FamilyTones(4, triLists[4][triIdx + 1])))

\* the end of a loop: the next list, or the end of the registration
TriNextList ==
  /\ pcY = "loop" /\ triIdx = Len(triLists[triFamily])
  /\ IF triFamily < 4
     THEN triFamily' = triFamily + 1 /\ triIdx' = 0 /\ pcY' = pcY
     ELSE triFamily' = triFamily /\ triIdx' = triIdx /\ pcY' = "done"
  /\ UNCHANGED <<triLists, TRITRIADIC_TONES, registered, triExc>>
  /\ UNCHANGED <<toneVars, fpVars, valVars, redVars, mailVars, damVars, checkVars, runVars,
                 infoVars, extVars, cntVars, cpsVars>>

NextTri ==
  AddTritriadic \/ AddTritriadic2 \/ AddTritriadicMt \/ AddTritriadicDm \/ TriNextList

SpecTri == InitTri /\ [][NextTri]_vars

(***************************************************************************)
(* The claims.                                                             *)
(***************************************************************************)
\* x is a float or came from a ratio: the two kinds of Tone the catalogs use
FloatOrRatio(a) == a.form = "ratio" \/ a.ctype = "float"

\* the scale text of the run has been built
Built == pcT \in {"parse", "validate"} \/ (pcT = "build" /\ texc = "")

\* C1: for every non-empty sequence of ratio and float Tones that Tone
\* construction accepts, build_scl gives a text, parse_scl_data reads it,
\* and validate_scale returns True for the scale read.
C1_RoundTripAccepted ==
  (targs # << >> /\ \A k \in 1..Len(targs) : FloatOrRatio(targs[k]))
    => /\ pcT \in {"build", "parse", "validate"} => texc = ""
       /\ pcT = "validate" => verdict = TRUE

\* a run of float Tones only whose text validate_scale refuses
C1_FloatToneRefused ==
  /\ pcT = "validate" /\ texc = ""
  /\ \A k \in 1..Len(targs) : targs[k].form = "cents" /\ targs[k].ctype = "float"
  /\ verdict = FALSE

\* the cents of the Tone the arguments a ask for are outside (0, period]
InWindow(c, period) == DecLt(D(0, 0), c) /\ DecLeq(c, period)

OutsideWindow(a) ==
  IF a.form = "cents" THEN ~InWindow(a.cx, a.period)
  ELSE ~BigIsZero(a.rx) /\ ~BigIsZero(a.ry)
       /\ ~InWindow(CentsOfRatio(a.rx, a.ry), a.period)

\* C4: every constructed Tone has 0 < cents <= period, and a Tone(...) call
\* whose cents are outside that window ends with an AssertionError, in the
\* ratio form and in the cent form.
C4_WindowOrAssertion ==
  /\ \A k \in 1..Len(tobjs) : InWindow(tobjs[k].cents, targs[k].period)
  /\ (pcT = "construct" /\ texc # "" /\ OutsideWindow(targs[Len(tobjs) + 1]))
       => texc = "AssertionError"

\* a Tone(...) call with cents outside the window that ends otherwise
C4_OtherError ==
  /\ pcT = "construct" /\ texc = "TypeError"
  /\ OutsideWindow(targs[Len(tobjs) + 1])

\* what the line of the k-th tone of the built text holds before its comment
Rendered(k) == Strip(BeforeFirst(scl.scl_text[5 + k], <<"!">>))

SclIntLimit == Big(21474, 83647)

FitsScl(t) == BigLeq(t.ratio_n, SclIntLimit) /\ BigLeq(t.ratio_d, SclIntLimit)

\* C7: in the text build_scl gives, a ratio Tone stands as "n/d" when its
\* numerator and its denominator are both <= 2147483647, and otherwise as
\* its cents rounded to 6 decimals, without "/".
C7_RatioOrRoundedCents ==
  Built =>
    \A k \in 1..Len(tobjs) :
      is_ratio(sorted(tobjs)[k]) =>
        IF FitsScl(sorted(tobjs)[k])
        THEN Rendered(k) = BigStr(sorted(tobjs)[k].ratio_n) \o <<"/">>
                             \o BigStr(sorted(tobjs)[k].ratio_d)
        ELSE /\ Rendered(k) = FloatStr(Round(sorted(tobjs)[k].cents, 6))
             /\ ~Contains(Rendered(k), <<"/">>)

\* a built text with a ratio Tone on each side of the limit
C7_BothSidesOfLimit ==
  /\ Built
  /\ \E k \in 1..Len(tobjs) : is_ratio(tobjs[k]) /\ ~FitsScl(tobjs[k])
  /\ \E k \in 1..Len(tobjs) :
       is_ratio(tobjs[k]) /\ tobjs[k].ratio_n = SclIntLimit

\* C5: reduce(x) lies in (1, 2] and is x times or divided by a power of 2.
C5_ReducedIntoOctave ==
  pcR \in {"once", "twice"} =>
    /\ red1.den < red1.num /\ red1.num <= 2 * red1.den
    /\ \E k \in 0..MaxNum :
         \/ red1.num * redIn.den = redIn.num * red1.den * 2^k
         \/ red1.num * redIn.den * 2^k = redIn.num * red1.den

\* reduce has doubled an x < 1/4 at least three times
C5_DoubledThrice == pcR = "once" /\ 4 * redIn.num < redIn.den

\* C6: reduce(reduce(x)) = reduce(x).
C6_ReduceIdempotent == pcR = "twice" => red2 = red1

\* reduce has been applied twice to an x > 4, which it halves
C6_TwiceOnHalved == pcR = "twice" /\ redIn.num > 4 * redIn.den /\ red1 # redIn

\* C8: the scale written with ratios and the scale written with the cents
\* rounded to 6 decimals have one fingerprint.
C8_FingerprintStable == pcF = "done" => fpA = fpB

\* the two fingerprints of the one-tone scale 16/15 differ
C8_SixteenFifteenths == pcF = "done" /\ fpIn = << <<16, 15>> >> /\ fpA # fpB

\* validate_scale has returned True for the scale read from the text
Accepted == pcV = "done" /\ vres.exc = "" /\ vres.val

\* the cents recomputed from the text are within 0.001 of the stored cents
Recomputed(text, cents) ==
  /\ CentValue(text).exc = ""
  /\ ~DecLt(D(0, 10000), DecAbsDiff(CentValue(text).val, cents))

\* C2: validate_scale returns True only if, for every tone, the text left
\* after stripping the inline comment, the whitespace around it and a
\* closing "cents" holds only digits, "/", ".", "-" and whitespace, and
\* the cents recomputed from that text are within 0.001 of the tone's cents.
C2_AcceptedTonesConsistent ==
  Accepted =>
    \A k \in 1..Len(vscale.val.tones) :
      /\ AllowedText(base_tone_string(vscale.val.tones[k].string_rep))
      /\ Recomputed(base_tone_string(vscale.val.tones[k].string_rep),
                    vscale.val.tones[k].cents)

\* the same with the text left after stripping the inline comment only
C2_CommentStrippedOnly ==
  Accepted =>
    \A k \in 1..Len(vscale.val.tones) :
      /\ AllowedText(BeforeFirst(vscale.val.tones[k].string_rep, <<"!">>))
      /\ Recomputed(BeforeFirst(vscale.val.tones[k].string_rep, <<"!">>),
                    vscale.val.tones[k].cents)

\* an accepted scale with a tone line that closes with "cents"
C2_AcceptedWithCents ==
  /\ Accepted
  /\ \E k \in 1..Len(vscale.val.tones) :
       Contains(vscale.val.tones[k].string_rep, <<"cents">>)

\* the k-th line of the text that is no comment
NonCommentLine(text, k) == SelectSeq(text, NotComment)[k]

TwelveExtraWords == <<"1", "2", " ", "extra", " ", "words">>

\* C3: validate_scale rejects every scale text whose second line that is
\* no comment (the count line, after the description) holds, trimmed, anything
\* but digits; the text with the count line "12 extra words" is rejected.
C3_CountLineOnlyDigits ==
  /\ Accepted => IsDigitStr(Strip(NonCommentLine(vtext, 2)))
  /\ (pcV = "done" /\ NonCommentLine(vtext, 2) = TwelveExtraWords)
       => (vres.exc = "" /\ ~vres.val)

\* the same of the first line that is no comment
C3_FirstLineOnlyDigits ==
  /\ Accepted => IsDigitStr(Strip(NonCommentLine(vtext, 1)))
  /\ (pcV = "done" /\ NonCommentLine(vtext, 1) = TwelveExtraWords)
       => (vres.exc = "" /\ ~vres.val)

\* the text of twelve tones under the count line "12 extra words" has
\* been rejected
C3_TwelveExtraWordsRejected ==
  /\ pcV = "done" /\ vres.exc = "" /\ ~vres.val
  /\ NonCommentLine(vtext, 2) = TwelveExtraWords
  /\ Len(vscale.val.tones) = 12

\* the cents of the tones of a scale text, rounded to 5 decimals
RoundedCents(text) ==
  [k \in 1..Len(parse_scl_data(text).val.tones) |->
     Round(parse_scl_data(text).val.tones[k].cents, 5)]

\* a and b hold the same values, each as often
SameValues(a, b) ==
  /\ Len(a) = Len(b)
  /\ \A v \in {a[k] : k \in 1..Len(a)} :
       Cardinality({k \in 1..Len(a) : a[k] = v})
         = Cardinality({k \in 1..Len(b) : b[k] = v})

\* two scale texts have one fingerprint
SameFingerprint(s, t) == SameValues(RoundedCents(s), RoundedCents(t))

\* C9: in write_out_results the set all_tones only grows, and no two files
\* written hold scales with the same fingerprint.
C9_FingerprintsWrittenOnce ==
  /\ [](pcM \in {"loop", "done"} =>
          \A f \in mFiles : \A g \in mFiles :
            f # g => ~SameFingerprint(f.text, g.text))
  /\ [][all_tones \subseteq all_tones']_vars

\* a pass that wrote two files and skipped a valid scale whose fingerprint
\* an earlier result had
C9_DuplicateSkipped ==
  /\ pcM = "done" /\ mRet.exc = "" /\ Cardinality(mFiles) = 2
  /\ \E i \in 1..Len(ordered) : \E j \in 1..Len(ordered) :
       /\ i < j
       /\ validate_scale(ordered[i].scale).val
       /\ SameFingerprint(ordered[i].scale.raw_text, ordered[j].scale.raw_text)

\* the rows whose scale has the fingerprint of row j's scale
Colliding(j) ==
  {i \in 1..Len(built) : SameFingerprint(built[i].scl_text, built[j].scl_text)}

\* the file of row j is in the output directory
Written(j) == \E f \in dFiles : f.name = built[j].filename

FromRechberger(j) == Contains(built[j].reference, <<"Rechberger">>)

\* the second loop of write_measured_scales has gone through every entry
AllWritten ==
  pcD \in {"build", "done"} /\ dIdx = Len(rows) /\ dGroup = Len(tones_to_scl)
    /\ (pcD = "done" => dRet.exc # "AssertionError")

\* C10: of the measured scales that share a fingerprint only one is ever
\* written, the one not from Rechberger, and no file has the name of another
\* of them; when the loop is through, one of them is written; and a run with
\* scales sharing a fingerprint of which not exactly one is not from
\* Rechberger ends with an AssertionError.
C10_OneOriginalWritten ==
  pcD \in {"build", "done"} =>
    \A j \in 1..Len(built) :
      Cardinality(Colliding(j)) >= 2 =>
        /\ Written(j) => /\ ~FromRechberger(j)
                         /\ \A i \in Colliding(j) \ {j} : ~Written(i)
        /\ AllWritten => \E i \in Colliding(j) : Written(i)
        /\ (pcD = "done" /\ dIdx = Len(rows)
              /\ Cardinality({i \in Colliding(j) : ~FromRechberger(i)}) # 1)
             => dRet.exc = "AssertionError"

\* a finished run that wrote the original of two colliding scales, and a
\* scale of its own besides
C10_OriginalKept ==
  /\ pcD = "done" /\ dRet.exc = "" /\ Cardinality(dFiles) = 2
  /\ \E j \in 1..Len(built) :
       Cardinality(Colliding(j)) = 2 /\ Written(j) /\ ~FromRechberger(j)

(***************************************************************************)
(* DaMuSc file names.                                                      *)
(***************************************************************************)
\* the file names the calls of measured_df_to_scl have returned so far
ReturnedNames == {built[k].filename : k \in 1..Len(built)}

\* C11: the calls of measured_df_to_scl that share one set filenames return
\* pairwise distinct names, all of them in the set; each call returns a name
\* that was not in the set before, after counting the suffix up at most
\* once per name in the set.
C11_FilenamesDistinct ==
  /\ [](/\ \A j \in 1..Len(built) : \A k \in 1..Len(built) :
             j # k => built[j].filename # built[k].filename
        /\ ReturnedNames = dFilenames)
  /\ [][dIdx' = dIdx + 1 =>
          /\ built'[dIdx'].filename \notin dFilenames
          /\ built'[dIdx'].filename \in
               {RowFilename(rows[dIdx'])}
                 \cup {PathStem(RowFilename(rows[dIdx'])) \o <<"_">> \o IntStr(i) \o DotScl :
                         i \in 2..(Cardinality(dFilenames) + 2)}]_vars

\* three rows of which the third is given the suffix _3, the name with _2
\* being that of the second row
C11_CountedToThree ==
  /\ Len(built) = 3
  /\ built[2].filename = <<"Java", "_", "Slendro", "_", "2", ".", "scl">>
  /\ built[3].filename = <<"Java", "_", "Slendro", "_", "3", ".", "scl">>

(***************************************************************************)
(* Mailing-list file names.                                                *)
(***************************************************************************)
\* the result the next pass of the loop of write_out_results handles, the
\* name its first line gives and the name with the suffix
Candidate == ordered[mIdx + 1]

BaseName == ResultFilename(Candidate.scale.raw_text[1])

SuffixedName == ClashName(BaseName, Candidate)

\* the candidate gets as far as the file name tests
ReachesNaming ==
  /\ validate_scale(Candidate.scale).exc = ""
  /\ validate_scale(Candidate.scale).val
  /\ Fingerprint(Candidate.scale) \notin all_tones

\* C12: a pass of the loop of write_out_results leaves every file written
\* before as it is and writes at most one file, under a name not used
\* before: the name of the first line or, when that is used, the name with
\* the suffix _<list>_<topicId>_<msgId>; when that is used as well the pass
\* raises ValueError and writes nothing.  The files of the directory carry
\* the names of the set filenames, one file each.
C12_NoFileOverwritten ==
  /\ [][(pcM = "loop" /\ mIdx' = mIdx + 1) =>
          /\ mFiles \subseteq mFiles'
          /\ Cardinality(mFiles' \ mFiles) <= 1
          /\ \A f \in mFiles' \ mFiles :
               /\ f.name \notin filenames
               /\ f.name = IF BaseName \in filenames THEN SuffixedName ELSE BaseName
          /\ mRet' = Raise("ValueError") =>
               /\ mFiles' = mFiles
               /\ {BaseName, SuffixedName} \subseteq filenames
          /\ (ReachesNaming /\ {BaseName, SuffixedName} \subseteq filenames)
               => mRet' = Raise("ValueError")]_vars
  /\ [](pcM \in {"loop", "done"} =>
          /\ {f.name : f \in mFiles} = filenames
          /\ Cardinality(mFiles) = Cardinality(filenames))

\* a pass that wrote a file under the name of its first line and one under
\* the name with the suffix, and ended with ValueError at a third scale
\* that asked for both names again
C12_SuffixedNameUsed ==
  /\ pcM = "done" /\ mRet.exc = "ValueError" /\ Cardinality(mFiles) = 2
  /\ \E f \in mFiles :
       f.name = <<"meantone", "_", "tuning", "_", "3", "_", "3", ".", "scl">>

(***************************************************************************)
(* check_scl_dir.                                                          *)
(***************************************************************************)
\* no two .scl files of the tree have one name
NamesUnique ==
  \A f \in SclFiles(cTree) : \A g \in SclFiles(cTree) : f # g => f.name # g.name

\* every .scl file of the tree is read and accepted
AllPass == \A f \in SclFiles(cTree) : FileFailure(f) = ""

\* C13 as stated: check_scl_dir returns only for a tree whose .scl names
\* are unique, and ends with AssertionError for every tree in which a name
\* occurs twice.
C13_DuplicateNameAsserts ==
  pcC = "done" =>
    /\ cRet.exc = "" => NamesUnique
    /\ ~NamesUnique => cRet.exc = "AssertionError"

\* C13 as amended: check_scl_dir returns only for a tree whose .scl names
\* are unique, subdirectories included, and then returns the number of .scl
\* files; for a tree in which a name occurs twice it fails, with
\* AssertionError when every file of the tree is read and accepted.
C13_DuplicateNameFails ==
  pcC = "done" =>
    /\ cRet.exc = "" =>
         NamesUnique /\ cRet.val = Cardinality(SclFiles(cTree))
    /\ ~NamesUnique =>
         /\ cRet.exc # ""
         /\ AllPass => cRet.exc = "AssertionError"

\* the call went through three accepted files, two of them named a.scl in
\* different subdirectories, and failed at the assertion
C13_SameNameInTwoDirectories ==
  /\ pcC = "done" /\ cRet.exc = "AssertionError"
  /\ Cardinality(cSeen) = 3
  /\ \E f \in cSeen : \E g \in cSeen : f.dir # g.dir /\ f.name = g.name

\* validate_scale returns False for the scale of the file
Rejected(file) ==
  /\ parse_scl_data(file.text).exc = ""
  /\ validate_scale(parse_scl_data(file.text).val).exc = ""
  /\ ~validate_scale(parse_scl_data(file.text).val).val

\* C16: once the loop of check_scl_dir has met a file that validate_scale
\* rejects, the call has ended with ScaleValidationError holding the scale
\* of that file, and every other file the loop has met was accepted (the
\* loop went no further); and a call that returns a count has met no file
\* that fails, in a tree that holds none.
C16_RejectedFileEndsCheck ==
  /\ \A f \in cSeen :
       Rejected(f) =>
         /\ pcC = "done"
         /\ cRet.exc = "ScaleValidationError"
         /\ cRet.val = parse_scl_data(f.text).val
         /\ \A g \in cSeen \ {f} : FileFailure(g) = ""
  /\ (pcC = "done" /\ cRet.exc = "") => AllPass

\* the call ended with ScaleValidationError after an accepted file, with
\* files of the tree left unchecked
C16_FilesLeftUnchecked ==
  /\ pcC = "done" /\ cRet.exc = "ScaleValidationError"
  /\ Cardinality(cSeen) = 2
  /\ Cardinality(SclFiles(cTree) \ cSeen) >= 2

(***************************************************************************)
(* run_all.main.                                                           *)
(***************************************************************************)
\* the directory of every source holds files, and the check of the source
\* accepts them
SourcesPass ==
  \A k \in 1..Len(Sources) :
    \E c \in check_scl_dir(rOut[Sources[k]]) : c.exc = ""

C15_EverySourceReturnsPair ==
  (pcRun = "done" /\ SourcesPass) =>
    /\ rIdx = Len(Sources)
    /\ Len(rCounts) = Len(Sources) /\ Len(rRefs) = Len(Sources)

\* a run that ended at the second source, whose main returned a count alone
C15_CountAloneReturned ==
  /\ pcRun = "done" /\ SourcesPass
  /\ rRet = Raise("TypeError")
  /\ rIdx = 1 /\ Len(rRefs) = 1

(***************************************************************************)
(* The large-integer check of validate_scale.                              *)
(***************************************************************************)
\* the text of the tone, comment stripped, is an integer of 100 or more
\* written with digits alone
LargeBareInteger(t) ==
  /\ IsDigitStr(Strip(base_tone_string(t.string_rep)))
  /\ BigLeq(ToBig(100), ParseBig(Strip(base_tone_string(t.string_rep))))

\* C17: validate_scale returns False for every scale with a tone whose
\* text, comment stripped, is a bare integer of 100 or more; and the
\* large-integer check lets every other tone pass: a bare integer below
\* 100, a text with "/" or ".".
C17_LargeIntegerRejected ==
  pcV = "done" =>
    /\ (\E k \in 1..Len(vscale.val.tones) : LargeBareInteger(vscale.val.tones[k]))
         => (vres.exc = "" /\ ~vres.val)
    /\ \A k \in 1..Len(vscale.val.tones) :
         ~LargeBareInteger(vscale.val.tones[k])
           => CheckInt(PyInt(base_tone_string(vscale.val.tones[k].string_rep))) = "next"

\* validate_scale raised at a tone that stands before a bare 700
C17_RaisedBeforeLargeInteger ==
  /\ pcV = "done" /\ vres.exc = "ZeroDivisionError"
  /\ Len(vscale.val.tones) = 2
  /\ LargeBareInteger(vscale.val.tones[2])

(***************************************************************************)
(* The order of the tone lines of build_scl.                               *)
(***************************************************************************)
\* two of the Tones handed to build_scl have the same cents
EqualCents ==
  \E i \in 1..Len(tobjs) : \E j \in 1..Len(tobjs) :
    i # j /\ tobjs[i].cents = tobjs[j].cents

\* C18: in the text build_scl gives, each tone line is the line of a Tone
\* of fewer cents than the Tone of the line after it; and build_scl ends
\* with an error, without a text, when two of its Tones have equal cents.
C18_TonesStrictlyIncreasing ==
  /\ Built =>
       \A k \in 1..(Len(tobjs) - 1) :
         \E i \in 1..Len(tobjs) : \E j \in 1..Len(tobjs) :
           /\ i # j
           /\ Rendered(k) = tone_string(tobjs[i])
           /\ Rendered(k + 1) = tone_string(tobjs[j])
           /\ DecLt(tobjs[i].cents, tobjs[j].cents)
  /\ (pcT # "construct" /\ EqualCents) => ~Built

\* a built text whose two tone lines are those of two Tones of equal cents
C18_EqualCentsSerialized ==
  /\ Built /\ Len(tobjs) = 2 /\ EqualCents
  /\ Rendered(1) = Rendered(2)

(***************************************************************************)
(* The header line of the written files.                                   *)
(***************************************************************************)
\* C19: every file in the directory of the mailing-list pass has for first
\* line "! " and the name of the file, the files written under a name with
\* the suffix of the collision resolution included.
C19_HeaderEchoesFilename ==
  pcM \in {"loop", "done"} =>
    \A f \in mFiles : f.text[1] = <<"!", " ">> \o f.name

\* a file written under the name with the suffix whose first line names
\* the file the suffix was made for
C19_SuffixedFileKeepsHeader ==
  /\ pcM = "done"
  /\ \E f \in mFiles :
       /\ f.name = <<"meantone", "_", "tuning", "_", "3", "_", "3", ".", "scl">>
       /\ f.text[1] = MeantoneLine

\* C20: parse_info on the text of a file a source wrote returns the
\* key-value pairs the source serialized in its info block, the values as
\* strings, whatever comment lines precede the block
C20_InfoRoundTrip ==
  pcI = "parsed" => iRet = Return(iMeta)

\* a written file whose comments hold a line "[info]" before its block
C20_EarlierInfoLine ==
  /\ pcI = "parsed"
  /\ iRet.exc = "DuplicateSectionError"
  /\ FirstInfoLine(iText) < Len(iText) - Cardinality(iMeta)

(***************************************************************************)
(* The mailing-list pass: priority, rejection, frame.                      *)
(***************************************************************************)
\* validate_scale returned True for the scale of the result
ResultAccepted(result) ==
  validate_scale(result.scale).exc = "" /\ validate_scale(result.scale).val

\* the accepted results that share the fingerprint of results[k]
Rivals(k) ==
  { j \in 1..Len(results) :
      /\ ResultAccepted(results[j])
      /\ Fingerprint(results[j].scale) = Fingerprint(results[k].scale) }

\* results[k] is accepted and no rival has a smaller sort key
Preferred(k) ==
  /\ ResultAccepted(results[k])
  /\ \A j \in Rivals(k) : ~KeyLt(sort_key(results[j]), sort_key(results[k]))

\* C21: among the accepted results that share a fingerprint, the one
\* written is from the earliest-ranked list and, within one list, has the
\* lowest msgId, whatever the order of extraction: every file written comes
\* from such a result, and when the loop has ended every accepted
\* fingerprint has its file
C21_EarliestRankedWritten ==
  /\ pcM \in {"loop", "done"} =>
       \A f \in mFiles :
         \E k \in 1..Len(results) : Preferred(k) /\ f.text = WrittenText(results[k])
  /\ (pcM = "loop" /\ mIdx = Len(ordered)) =>
       \A k \in 1..Len(results) :
         ResultAccepted(results[k]) =>
           \E j \in Rivals(k) : \E f \in mFiles :
             Preferred(j) /\ f.text = WrittenText(results[j])

\* the result extracted first lost to a rival of an earlier-ranked list
C21_LaterExtractedWins ==
  /\ pcM = "done" /\ mRet.exc = "" /\ Len(results) > 1
  /\ 2 \in Rivals(1)
  /\ KeyLt(sort_key(results[2]), sort_key(results[1]))
  /\ \E f \in mFiles : f.text = WrittenText(results[2])
  /\ \A f \in mFiles : f.text # WrittenText(results[1])

(***************************************************************************)
(* The end of run_all.main.                                                *)
(***************************************************************************)
\* C22: the README and the scale index are written only after the four
\* sources have run and the consistency pass (check_scl_dir on the whole
\* tree and the comparison of the counts, lines 30 to 37) has succeeded; a
\* run in which a source or the pass fails writes neither
C22_WrittenAfterPass ==
  /\ (rReadme \/ rIndex) => (pcRun = "done" /\ rIdx = Len(Sources) /\ rLine > 37)
  /\ (pcRun = "done" /\ rRet.exc # "" /\ rLine <= 37) => (~rReadme /\ ~rIndex)
  /\ rIndex => rReadme

\* a run in which the first source passed and a later one failed: the tree
\* holds files and neither the README nor the index is written
C22_FailedRunWritesNeither ==
  /\ pcRun = "done" /\ rRet.exc # "" /\ rIdx = 1 /\ rLine = 26
  /\ rTree # {} /\ ~rReadme /\ ~rIndex

(***************************************************************************)
(* Rejected candidates of the mailing-list pass.                           *)
(***************************************************************************)
\* validate_scale returned False for the scale of the result
ResultRejected(result) ==
  validate_scale(result.scale).exc = "" /\ ~validate_scale(result.scale).val

ForbiddenContent(text) ==
  TextContains(text, <<"<", "div">>) \/ TextContains(text, <<"<", "p", ">">>)

\* C23: a candidate validate_scale rejects, and so any whose raw text
\* contains "<div" or "<p>", is never written to the output directory, and
\* the pass goes on after it
C23_RejectedNeverWritten ==
  /\ [](\A k \in 1..Len(results) :
          /\ ForbiddenContent(results[k].scale.raw_text) => ResultRejected(results[k])
          /\ (pcM \in {"loop", "done"} /\ ResultRejected(results[k])) =>
               \A f \in mFiles : f.text # WrittenText(results[k]))
  /\ [][(pcM = "loop" /\ mIdx < Len(ordered) /\ ResultRejected(ordered[mIdx + 1])) =>
          (pcM' = "loop" /\ mRet' = mRet /\ mFiles' = mFiles /\ mIdx' = mIdx + 1)]_vars

\* a pass that went over a candidate with "<div" in its text and wrote a
\* later one
C23_PassWentOn ==
  /\ pcM = "done" /\ mRet.exc = "" /\ Len(ordered) > 1
  /\ TextContains(ordered[1].scale.raw_text, <<"<", "div">>)
  /\ \E f \in mFiles : f.text = WrittenText(ordered[2])

(***************************************************************************)
(* extract_scales.                                                         *)
(***************************************************************************)
\* the lengths of the runs of lines from the start line up to and
\* including the last line of the message that parse
ParsingRuns(lines, start) ==
  { n \in 0..(Len(lines) - start + 1) : Parses(LinesFrom(lines, start, n)) }

ShortestRun(lines, start) ==
  CHOOSE n \in ParsingRuns(lines, start) : \A m \in ParsingRuns(lines, start) : n <= m

\* C24: for each start line the extracted text is the shortest run of
\* lines from the start line that parses, extended by the comment lines
\* that directly follow it, and a result is produced whenever some run of
\* lines from the start line up to and including the last line of the
\* message parses
C24_ShortestRunExtracted ==
  pcE = "done" =>
    \A k \in 1..Len(scl_starts) :
      ParsingRuns(email_lines, scl_starts[k]) # {} =>
        \E r \in 1..Len(eResults) :
          /\ eResults[r].start = scl_starts[k]
          /\ eResults[r].scale.raw_text =
               LinesFrom(email_lines, scl_starts[k],
                         WithComments(email_lines, scl_starts[k],
                                      ShortestRun(email_lines, scl_starts[k])))

\* a message that ends with the last tone of its scale: no result
C24_ScaleAtEndOfMessage ==
  /\ pcE = "done" /\ eRet = Return(<< >>)
  /\ Len(scl_starts) = 1
  /\ ParsingRuns(email_lines, scl_starts[1]) = {Len(email_lines) - scl_starts[1] + 1}

\* the result a written file comes from
SourceOf(f) == CHOOSE k \in 1..Len(ordered) : f.text = WrittenText(ordered[k])

\* C25: a candidate that fails validation leaves all_tones and filenames
\* unchanged, so that it never suppresses a later valid scale with the same
\* tones and never forces a later scale with the same name to take a
\* suffix: a written file has a suffixed name only when another written
\* file has the name of its first line
C25_RejectedLeavesSets ==
  /\ [][(pcM = "loop" /\ mIdx < Len(ordered) /\ ResultRejected(ordered[mIdx + 1])) =>
          (all_tones' = all_tones /\ filenames' = filenames)]_vars
  /\ [](pcM = "loop" =>
          /\ \A k \in 1..mIdx :
               ResultAccepted(ordered[k]) => Fingerprint(ordered[k].scale) \in all_tones
          /\ \A t \in all_tones : \E k \in 1..mIdx :
               ResultAccepted(ordered[k]) /\ Fingerprint(ordered[k].scale) = t
          /\ \A f \in mFiles :
               f.name # ResultFilename(ordered[SourceOf(f)].scale.raw_text[1]) =>
                 \E g \in mFiles :
                   g.name = ResultFilename(ordered[SourceOf(f)].scale.raw_text[1]))

\* a rejected candidate came first, and the next one, with its tones and
\* its name, was written under that name
C25_LaterScaleKeepsName ==
  /\ pcM = "done" /\ mRet.exc = "" /\ Len(ordered) > 1
  /\ ResultRejected(ordered[1]) /\ ResultAccepted(ordered[2])
  /\ Fingerprint(ordered[1].scale) = Fingerprint(ordered[2].scale)
  /\ ResultFilename(ordered[1].scale.raw_text[1])
       = ResultFilename(ordered[2].scale.raw_text[1])
  /\ \E f \in mFiles :
       /\ f.text = WrittenText(ordered[2])
       /\ f.name = ResultFilename(ordered[2].scale.raw_text[1])

(***************************************************************************)
(* check_count_line.                                                       *)
(***************************************************************************)
NonCommentLines(text) == SelectSeq(text, NotComment)

\* C26: check_count_line returns True only when the text has at least two
\* lines that are no comments and the second of them consists of digits
\* alone once trimmed; for a text with fewer than two such lines, the empty
\* text included, it returns False and does not raise
C26_CountLineChecked ==
  pcK = "done" =>
    /\ kRet.exc = ""
    /\ kRet.val =>
         /\ Len(NonCommentLines(kText)) >= 2
         /\ IsDigitStr(Strip(NonCommentLines(kText)[2]))
    /\ Len(NonCommentLines(kText)) < 2 => ~kRet.val

\* the empty text: the loop variable is never bound
C26_EmptyTextRaises ==
  pcK = "done" /\ kText = << >> /\ kRet = Raise("UnboundLocalError")

\* a text whose only line that is no comment is a number
C26_SingleNumberAccepted ==
  /\ pcK = "done" /\ Len(NonCommentLines(kText)) = 1
  /\ kRet.exc = "" /\ kRet.val

(***************************************************************************)
(* validate_scale on tone texts that are no positive number or ratio.      *)
(***************************************************************************)
\* the text, within the allowed characters, is a positive decimal number
\* or a ratio of positive integers
PositiveTone(tone_text) ==
  IF Contains(tone_text, <<".">>)
  THEN PyFloat(tone_text).exc = "" /\ DecLt(D(0, 0), PyFloat(tone_text).val)
  ELSE PyLogFraction(tone_text).exc = ""

NotPositiveTone(t) ==
  /\ AllowedText(base_tone_string(t.string_rep))
  /\ ~PositiveTone(base_tone_string(t.string_rep))

\* C27: validate_scale returns True or False for every parsed scale and
\* never raises; a tone text within the allowed characters that is no
\* positive number or ratio yields False
C27_ValidateNeverRaises ==
  pcV = "done" =>
    /\ vres.exc = ""
    /\ (\E k \in 1..Len(vscale.val.tones) : NotPositiveTone(vscale.val.tones[k]))
         => ~vres.val

\* a scale of one tone with a zero denominator: validate_scale raised
C27_ZeroDenominatorRaises ==
  /\ pcV = "done" /\ vres = Raise("ZeroDivisionError")
  /\ Len(vscale.val.tones) = 1
  /\ PyLogFraction(base_tone_string(vscale.val.tones[1].string_rep)).exc
       = "ZeroDivisionError"

\* a scale of one tone of negative cents: validate_scale returned True
C27_NegativeCentsAccepted ==
  /\ pcV = "done" /\ vres.exc = "" /\ vres.val
  /\ Len(vscale.val.tones) = 1
  /\ NotPositiveTone(vscale.val.tones[1])

(***************************************************************************)
(* The text of a Tone given as a cent value.                               *)
(***************************************************************************)
IsPoint(tok) == tok = "."

\* a non-empty string of digits and one decimal point
DecimalNumberText(s) ==
  /\ s # << >>
  /\ \A k \in 1..Len(s) : s[k] \in DigitSet \cup {"."}
  /\ Len(SelectSeq(s, IsPoint)) = 1

\* C28: every Tone constructed from a cent value, a float, an int or a
\* Decimal, renders to a non-empty string of digits and one decimal point
C28_CentsRenderAsDecimal ==
  \A k \in 1..Len(tobjs) :
    ~is_ratio(tobjs[k]) =>
      /\ tone_string(tobjs[k]) # None
      /\ DecimalNumberText(tone_string(tobjs[k]))

\* a Tone of 700 cents given as an int: _tone_string returns None
C28_IntCentsRenderNone ==
  /\ Len(tobjs) = 1 /\ ~is_ratio(tobjs[1])
  /\ tobjs[1].ctype = "int" /\ tone_string(tobjs[1]) = None

\* a Tone given as the Decimal 50 renders as "50", which reads as a ratio
C28_DecimalWithoutPoint ==
  /\ Len(tobjs) = 1 /\ ~is_ratio(tobjs[1])
  /\ tobjs[1].ctype = "Decimal" /\ tone_string(tobjs[1]) = <<"5", "0">>

(***************************************************************************)
(* cps.                                                                    *)
(***************************************************************************)
\* C29: cps returns one tone per combination of count of the numbers, and
\* the tones returned have pairwise distinct reduced ratios: when two
\* combinations reduce to one ratio the assertion fails
C29_CpsTonesDistinct ==
  pcP = "done" =>
    /\ cpsRet.exc = "" =>
         /\ Len(cpsRet.val) = Len(Combinations(cpsIn.numbers, cpsIn.count))
         /\ Cardinality(ToneRatios(cpsRet.val)) = Len(cpsRet.val)
    /\ cpsRet.exc # "" => cpsRet.exc = "AssertionError"

\* cps([2, 4], 1, None) returns 2/1 twice
C29_RepeatedToneReturned ==
  /\ pcP = "done" /\ cpsRet.exc = "" /\ Len(cpsRet.val) = 2
  /\ cpsIn = [numbers |-> <<2, 4>>, count |-> 1, root |-> 0]
  /\ cpsRet.val[1].ratio_n = cpsRet.val[2].ratio_n
  /\ cpsRet.val[1].ratio_d = cpsRet.val[2].ratio_d

(***************************************************************************)
(* The registration of the tritriadic scales.                              *)
(***************************************************************************)
\* C30: across the four families, registered in their order, no two
\* registered builders produce the same tone set: a tone set that is in
\* TRITRIADIC_TONES is never registered a second time
C30_ToneSetsRegisteredOnce ==
  \A r \in registered : \A s \in registered : r # s => r.tones # s.tones

\* the triples 6:7:9 and 3:7:9 of the first list are both registered
C30_SameTonesTwice ==
  /\ pcY = "done" /\ triExc = ""
  /\ \E r \in registered : \E s \in registered :
       /\ r.family = 1 /\ s.family = 1
       /\ r.triple = <<6, 7, 9>> /\ s.triple = <<3, 7, 9>>
       /\ r.tones = s.tones
====
